---- MODULE Spec2Model ----
(***************************************************************************)
(* A model of routines of hhoppe_tools/__init__.py: the array routines     *)
(* pad_array, bounding_slices, bounding_crop, grid_from_indices,           *)
(* _fit_shape and assemble_arrays, then overlay_text, UnionFind,           *)
(* discrete_binary_search and temporary_assignment.                        *)
(*                                                                         *)
(* An array is a record [shape, data]: shape is the sequence of extents    *)
(* and data maps every index (a sequence of 0-based coordinates, one per   *)
(* axis) to the element stored there.  Each routine is a call in progress: *)
(* its arguments, its locals and its position (pc) are the state.          *)
(***************************************************************************)
EXTENDS Integers, Sequences, FiniteSets, TLC

VARIABLES
  \* assemble_arrays: arguments
  arrays, shape, background, align, spacing, round_to_even,
  \* assemble_arrays: locals
  axis_lengths, axis_origins, output_array, slices, i, pc

asmVars == <<arrays, shape, background, align, spacing, round_to_even,
             axis_lengths, axis_origins, output_array, slices, i, pc>>

VARIABLES
  \* grid_from_indices: arguments
  iterable_or_map, gfi_background, foreground, indices_min, indices_max, gfi_pad,
  \* grid_from_indices: the array returned, and the call's position
  gfi_grid, gfi_pc

gfiVars == <<iterable_or_map, gfi_background, foreground, indices_min,
             indices_max, gfi_pad, gfi_grid, gfi_pc>>

VARIABLES
  \* bounding_slices, bounding_crop, pad_array: arguments
  bc_array, bc_value, bc_margin,
  \* what bounding_slices and bounding_crop return
  bc_slices, bc_result,
  \* the crop / pad / crop round trip: the three arrays returned
  cropped, padded, recropped,
  \* pad_array called on the same arguments: what it returns, what it raises
  pa_result, pa_raised,
  \* the call's position
  bc_pc

cropVars == <<bc_array, bc_value, bc_margin, bc_slices, bc_result, cropped,
              padded, recropped, pa_result, pa_raised, bc_pc>>

VARIABLES
  \* _fit_shape: arguments, the shape returned, and the call's position
  fs_shape, fs_num, fs_new_shape, fs_pc

fitVars == <<fs_shape, fs_num, fs_new_shape, fs_pc>>

VARIABLES
  \* overlay_text: arguments (ov_text_image is what rasterized_text returns
  \* for the text), the installed Pillow version, and the call's position
  ov_image, ov_yx, ov_text_image, ov_align, ov_pillow, ov_pc

ovVars == <<ov_image, ov_yx, ov_text_image, ov_align, ov_pillow, ov_pc>>

VARIABLES
  \* UnionFind: the _rep dictionary, and the pairs passed to union so far
  uf_rep, uf_unions,
  \* the method called (name and arguments), and what the call before it
  \* returned, until the next call
  uf_op, uf_ret,
  \* find: the local a, the list parents, and the values the calls of find
  \* made by the method in progress have returned
  uf_a, uf_parents, uf_found,
  \* the position in the method called
  uf_pc

ufVars == <<uf_rep, uf_unions, uf_op, uf_ret, uf_a, uf_parents, uf_found, uf_pc>>

VARIABLES
  \* discrete_binary_search: arguments (bs_xl and bs_xh are also the locals
  \* the loop assigns; bs_lo and bs_hi keep the values they were called with)
  bs_feval, bs_lo, bs_hi, bs_xl, bs_xh, bs_y_desired,
  \* the value returned (a sequence, empty until the call returns), and the
  \* call's position
  bs_ret, bs_pc

bsVars == <<bs_feval, bs_lo, bs_hi, bs_xl, bs_xh, bs_y_desired, bs_ret, bs_pc>>

VARIABLES
  \* temporary_assignment: arguments, and the dictionary as it was at the call
  ta_variables, ta_name, ta_value, ta_before,
  \* the local old_value, the number of statements the body of the with
  \* statement has run, how the body ended, and the position
  ta_old_value, ta_steps, ta_body, ta_pc

taVars == <<ta_variables, ta_name, ta_value, ta_before, ta_old_value, ta_steps,
            ta_body, ta_pc>>

vars == <<asmVars, gfiVars, cropVars, fitVars, ovVars, ufVars, bsVars, taVars>>

----------------------------------------------------------------------------
(* Bounds of the model. *)

\* The largest number of input arrays of one assemble_arrays call.
MaxArrays == 3

----------------------------------------------------------------------------
(* Sequences, indices and boxes. *)

RECURSIVE Prod(_)
Prod(s) == IF s = <<>> THEN 1 ELSE Head(s) * Prod(Tail(s))

RECURSIVE SumSeq(_)
SumSeq(s) == IF s = <<>> THEN 0 ELSE Head(s) + SumSeq(Tail(s))

MaxOf(S) == CHOOSE x \in S : \A y \in S : y <= x

MinOf(S) == CHOOSE x \in S : \A y \in S : x <= y

\* All indices of an array of shape s: the sequences c with 0 <= c[k] < s[k].
RECURSIVE Box(_)
Box(s) ==
  IF s = <<>> THEN {<<>>}
  ELSE {<<c>> \o rest : c \in 0 .. (Head(s) - 1), rest \in Box(Tail(s))}

\* np.unravel_index(k, s): the row-major coordinates of linear index k.
RECURSIVE unravel_index(_, _)
unravel_index(k, s) ==
  IF s = <<>> THEN <<>>
  ELSE LET below == Prod(Tail(s))
       IN  <<k \div below>> \o unravel_index(k % below, Tail(s))

\* The row-major linear index of coordinates c in shape s (reshape's order).
RECURSIVE ravel_index(_, _)
ravel_index(c, s) ==
  IF s = <<>> THEN 0
  ELSE Head(c) * Prod(Tail(s)) + ravel_index(Tail(c), Tail(s))

----------------------------------------------------------------------------
(* numpy conventions shared by the routines. *)

\* An argument that numpy broadcasts: [ndim |-> 0, v |-> x] is the scalar x,
\* [ndim |-> 1, v |-> <<...>>] a vector, [ndim |-> 2, v |-> <<row, ...>>] a
\* matrix.
Scalar(x) == [ndim |-> 0, v |-> x]

Vector(s) == [ndim |-> 1, v |-> s]

Matrix(rows) == [ndim |-> 2, v |-> rows]

\* Whether np.broadcast_to(a, (n,)) succeeds, and its result.
CanBroadcast1(a, n) ==
  \/ a.ndim = 0
  \/ a.ndim = 1 /\ Len(a.v) \in {1, n}

broadcast_to1(a, n) ==
  [k \in 1 .. n |->
     IF a.ndim = 0 THEN a.v ELSE IF Len(a.v) = 1 THEN a.v[1] ELSE a.v[k]]

\* Whether np.broadcast_to(a, (m, n)) succeeds, and its result.
CanBroadcast2(a, m, n) ==
  \/ a.ndim = 0
  \/ a.ndim = 1 /\ Len(a.v) \in {1, n}
  \/ /\ a.ndim = 2
     /\ Len(a.v) \in {1, m}
     /\ \A r \in 1 .. Len(a.v) : Len(a.v[r]) \in {1, n}

broadcast_to2(a, m, n) ==
  [r \in 1 .. m |->
     IF a.ndim < 2 THEN broadcast_to1(a, n)
     ELSE broadcast_to1(Vector(a.v[IF Len(a.v) = 1 THEN 1 ELSE r]), n)]

\* The half-open range that the slice start:stop selects on an axis of
\* extent n (Python's slice.indices with step 1): a negative bound counts
\* from the end, and both bounds are clipped to [0, n].
ClipBound(b, n) ==
  IF b < 0 THEN (IF b + n < 0 THEN 0 ELSE b + n) ELSE (IF b > n THEN n ELSE b)

SliceRange(sl, n) ==
  LET lo == ClipBound(sl.start, n)
      hi == ClipBound(sl.stop, n)
  IN  [lo |-> lo, hi |-> IF hi < lo THEN lo ELSE hi]

\* np.full(shp, value): value is a scalar or a vector along the last axis.
CanFull(shp, value) ==
  /\ \A k \in 1 .. Len(shp) : shp[k] >= 0
  /\ \/ value.ndim = 0
     \/ /\ value.ndim = 1
        /\ Len(shp) >= 1
        /\ Len(value.v) \in {1, shp[Len(shp)]}

ValueAt(value, p) ==
  IF value.ndim = 0 THEN value.v
  ELSE IF Len(value.v) = 1 THEN value.v[1]
  ELSE value.v[p[Len(p)] + 1]

\* Mutant of np_full: the array is zero-filled, whatever the value.
np_full_zeros(shp, value, dtype) ==
  [shape |-> shp, dtype |-> dtype, data |-> [p \in Box(shp) |-> 0]]

np_full(shp, value, dtype) ==
  [shape |-> shp, dtype |-> dtype, data |-> [p \in Box(shp) |-> ValueAt(value, p)]]

----------------------------------------------------------------------------
(* _fit_shape *)

\* The entries of shp that are not the wildcard -1.
Resolved(shp) == {k \in 1 .. Len(shp) : shp[k] # -1}

\* Mutant of fit_shape_raises: several wildcard entries are accepted.
fit_shape_raises_any_wildcards(shp, num) ==
  \/ ~ (\A k \in Resolved(shp) : shp[k] > 0)
  \/ /\ Resolved(shp) = 1 .. Len(shp)
     /\ Prod(shp) < num

\* Mutant of fit_shape_raises: a shape with exactly num cells is rejected.
fit_shape_raises_exact_fit(shp, num) ==
  \/ ~ (\A k \in Resolved(shp) : shp[k] > 0)
  \/ Cardinality((1 .. Len(shp)) \ Resolved(shp)) > 1
  \/ /\ Resolved(shp) = 1 .. Len(shp)
     /\ Prod(shp) <= num

\* Whether _fit_shape(shp, num) raises ValueError.
fit_shape_raises(shp, num) ==
  \/ ~ (\A k \in Resolved(shp) : shp[k] > 0)
  \/ Cardinality((1 .. Len(shp)) \ Resolved(shp)) > 1
  \/ /\ Resolved(shp) = 1 .. Len(shp)
     /\ Prod(shp) < num

\* Mutant of fit_shape: the wildcard entry is num // slice_size.
fit_shape_floor(shp, num) ==
  LET slice_size == Prod([k \in 1 .. Len(shp) |-> IF shp[k] = -1 THEN 1 ELSE shp[k]])
  IN  [k \in 1 .. Len(shp) |->
         IF shp[k] = -1 THEN num \div slice_size ELSE shp[k]]

\* The shape _fit_shape(shp, num) returns when it does not raise.
fit_shape(shp, num) ==
  LET slice_size == Prod([k \in 1 .. Len(shp) |-> IF shp[k] = -1 THEN 1 ELSE shp[k]])
  IN  [k \in 1 .. Len(shp) |->
         IF shp[k] = -1 THEN (num + slice_size - 1) \div slice_size ELSE shp[k]]

\* The largest entry of a shape, the largest rank of a shape, and the
\* largest number of elements, of a _fit_shape call.
MaxDim == 3

MaxFitRank == 3

MaxNum == 7

\* The shapes the model draws from: entries are the wildcard -1, positive,
\* zero or negative.
FitShapes == UNION {[1 .. n -> -2 .. MaxDim] : n \in 0 .. MaxFitRank}

FitIdle ==
  /\ fs_shape = <<>>
  /\ fs_num = 0
  /\ fs_new_shape = <<>>
  /\ fs_pc = "idle"

FitStart ==
  /\ fs_shape \in FitShapes
  /\ fs_num \in 0 .. MaxNum
  /\ fs_new_shape = <<>>
  /\ fs_pc = "call"

\* _fit_shape(fs_shape, fs_num) raising ValueError.
FitShapeRaise ==
  /\ fs_pc = "call"
  /\ fit_shape_raises(fs_shape, fs_num)
  /\ fs_pc' = "raised"
  /\ UNCHANGED <<fs_shape, fs_num, fs_new_shape>>
  /\ UNCHANGED <<asmVars, gfiVars, cropVars, ovVars, ufVars, bsVars, taVars>>

\* _fit_shape(fs_shape, fs_num) returning.
FitShapeReturn ==
  /\ fs_pc = "call"
  /\ ~ fit_shape_raises(fs_shape, fs_num)
  /\ fs_new_shape' = fit_shape(fs_shape, fs_num)
  /\ fs_pc' = "returned"
  /\ UNCHANGED <<fs_shape, fs_num>>
  /\ UNCHANGED <<asmVars, gfiVars, cropVars, ovVars, ufVars, bsVars, taVars>>

FitNext == FitShapeRaise \/ FitShapeReturn

----------------------------------------------------------------------------
(* assemble_arrays *)

\* The grid rank, len(shape), and the number of input arrays, len(arrays).
GridRank == Len(shape)

num == Len(arrays)

HeadOf(array) == SubSeq(array.shape, 1, GridRank)

TailOf(array) == SubSeq(array.shape, GridRank + 1, Len(array.shape))

\* The grid shape after _fit_shape (line 1883).
grid == fit_shape(shape, num)

tail_dims == TailOf(arrays[1])

align2 == broadcast_to2(align, num, GridRank)

spacing2 == broadcast_to1(spacing, GridRank)

round_to_even2 == broadcast_to1(round_to_even, GridRank)

\* head_dims (lines 1895-1898): the leading dimensions of the array of each
\* grid cell, in row-major order of the cells; zeros for the cells beyond
\* the array count.
head_dims ==
  LET g == grid
  IN  [cell \in Box(g) |->
         LET k == ravel_index(cell, g)
         IN  IF k < num THEN HeadOf(arrays[k + 1])
             ELSE [a \in 1 .. GridRank |-> 0]]

\* Mutant of MaxLengths: the min over the cells of a slice, not the max.
MaxLengths_min(axis) ==
  LET dims == head_dims
  IN  [c \in 0 .. (grid[axis] - 1) |->
         MinOf({dims[cell][axis] : cell \in {q \in DOMAIN dims : q[axis] = c}})]

\* Mutant of MaxLengths: the extent found in the first cell of the slice,
\* not the max over its cells.
MaxLengths_first_cell(axis) ==
  LET dims == head_dims
  IN  [c \in 0 .. (grid[axis] - 1) |->
         dims[[a \in 1 .. GridRank |-> IF a = axis THEN c ELSE 0]][axis]]

\* lengths before even-rounding (line 1905): the max over the cells of
\* slice c along axis.
MaxLengths(axis) ==
  LET dims == head_dims
  IN  [c \in 0 .. (grid[axis] - 1) |->
         MaxOf({dims[cell][axis] : cell \in {q \in DOMAIN dims : q[axis] = c}})]

SumTo(f, n) == SumSeq([k \in 1 .. n |-> f[k - 1]])

\* Mutant of Lengths: the last slice is never lengthened.
Lengths_never_rounded(axis) == MaxLengths(axis)

\* lengths as appended to axis_lengths (lines 1907-1910).
Lengths(axis) ==
  LET lengths      == MaxLengths(axis)
      shape_axis   == grid[axis]
      total_length == SumTo(lengths, shape_axis) + spacing2[axis] * (shape_axis - 1)
  IN  IF round_to_even2[axis] /\ total_length % 2 = 1
        THEN [lengths EXCEPT ![shape_axis - 1] = @ + 1]
        ELSE lengths

\* Mutant of Origins: the spacing is added after the first slice only.
Origins_spaced_once(axis) ==
  LET lengths    == Lengths(axis)
      shape_axis == grid[axis]
      space      == spacing2[axis]
      spaced     == [c \in 0 .. (shape_axis - 1) |->
                       lengths[c] + (IF c = 0 /\ c < shape_axis - 1 THEN space ELSE 0)]
  IN  [k \in 0 .. shape_axis |-> SumTo(spaced, k)]

\* spaced_lengths.cumsum() (lines 1912-1915): entry k is the origin of slice
\* k, and the last entry the extent of the output along the axis.
Origins(axis) ==
  LET lengths    == Lengths(axis)
      shape_axis == grid[axis]
      space      == spacing2[axis]
      spaced     == [c \in 0 .. (shape_axis - 1) |->
                       lengths[c] + (IF c < shape_axis - 1 THEN space ELSE 0)]
  IN  [k \in 0 .. shape_axis |-> SumTo(spaced, k)]

\* output_shape (line 1921).
output_shape ==
  [a \in 1 .. GridRank |-> Origins(a)[grid[a]]] \o tail_dims

\* Mutant of AlignCodes: 'middle' is taken for an alignment code.
AlignCodes_with_middle == {"start", "stop", "center", "middle"}

\* offset (lines 1924-1929).
AlignCodes == {"start", "stop", "center"}

\* Mutant of offset: 'stop' starts the array at the cell's end.
offset_stop_at_end(length, size, code) ==
  LET remainder == length - size
  IN  IF code = "start" THEN 0
      ELSE IF code = "stop" THEN length
      ELSE remainder \div 2

offset(length, size, code) ==
  LET remainder == length - size
  IN  IF code = "start" THEN 0
      ELSE IF code = "stop" THEN remainder
      ELSE remainder \div 2

\* The slices computed for array number k (1-based), lines 1933-1940.
SlicesOf(k) ==
  LET coords == unravel_index(k - 1, grid)
      codes  == align2[k]
  IN  [a \in 1 .. GridRank |->
         LET start         == axis_origins[a][coords[a]]
             length        == axis_lengths[a][coords[a]]
             extent        == arrays[k].shape[a]
             aligned_start == start + offset(length, extent, codes[a])
         IN  [start |-> aligned_start, stop |-> aligned_start + extent]]

\* Whether index p of `target` is selected by target[sl]: the slices apply
\* to the leading axes, and the other axes are taken whole.
InSlices(target, sl, p) ==
  \A a \in 1 .. Len(sl) :
     LET r == SliceRange(sl[a], target.shape[a])
     IN  r.lo <= p[a] /\ p[a] < r.hi

Region(target, sl) == {p \in DOMAIN target.data : InSlices(target, sl, p)}

\* Whether target[sl] = source broadcasts: on each sliced axis the source's
\* extent is the selected extent or 1.
CanAssign(target, sl, source) ==
  \A a \in 1 .. Len(sl) :
     LET r == SliceRange(sl[a], target.shape[a])
     IN  source.shape[a] \in {r.hi - r.lo, 1}

\* target after target[sl] = source (line 1941).
AssignSlices(target, sl, source) ==
  LET ranges == [a \in 1 .. Len(sl) |-> SliceRange(sl[a], target.shape[a])]
  IN  [target EXCEPT !.data =
         [p \in DOMAIN target.data |->
            IF \A a \in 1 .. Len(sl) : ranges[a].lo <= p[a] /\ p[a] < ranges[a].hi
              THEN source.data[[a \in 1 .. Len(p) |->
                     IF a > Len(sl) THEN p[a]
                     ELSE IF source.shape[a] = 1 THEN 0
                     ELSE p[a] - ranges[a].lo]]
              ELSE target.data[p]]]

\* Mutant of SetupRaises: the tail dimensions are not compared.
SetupRaises_tails_unchecked ==
  IF num = 0 THEN TRUE
  ELSE IF fit_shape_raises(shape, num) THEN TRUE
  ELSE IF \E k \in 1 .. num : arrays[k].dtype # arrays[1].dtype THEN TRUE
  ELSE IF ~ CanBroadcast2(align, num, GridRank) THEN TRUE
  ELSE IF ~ CanBroadcast1(spacing, GridRank) THEN TRUE
  ELSE IF ~ CanBroadcast1(round_to_even, GridRank) THEN TRUE
  ELSE ~ CanFull(output_shape, background)

\* Whether lines 1880-1922 raise: no input array, _fit_shape raising, arrays
\* of different dtypes or tail dimensions, an argument that does not
\* broadcast, or np.full raising on the output shape.
SetupRaises ==
  IF num = 0 THEN TRUE
  ELSE IF fit_shape_raises(shape, num) THEN TRUE
  ELSE IF \E k \in 1 .. num : arrays[k].dtype # arrays[1].dtype THEN TRUE
  ELSE IF \E k \in 1 .. num : TailOf(arrays[k]) # tail_dims THEN TRUE
  ELSE IF ~ CanBroadcast2(align, num, GridRank) THEN TRUE
  ELSE IF ~ CanBroadcast1(spacing, GridRank) THEN TRUE
  ELSE IF ~ CanBroadcast1(round_to_even, GridRank) THEN TRUE
  ELSE ~ CanFull(output_shape, background)

\* Whether iteration k of the copy loop raises: offset rejects an alignment
\* code, or the array does not broadcast to the slices it is assigned to.
CopyRaises(k) ==
  IF \E a \in 1 .. GridRank : align2[k][a] \notin AlignCodes THEN TRUE
  ELSE ~ CanAssign(output_array, SlicesOf(k), arrays[k])

\* The input arrays the model draws from: array number k holds the values
\* 10k, 10k+1, ... in row-major order.  The last array of a call may be of
\* another dtype than the others.
ArrayKinds ==
  { [shape |-> <<1, 1>>, dtype |-> "int64"],
    [shape |-> <<1, 3>>, dtype |-> "int64"],
    [shape |-> <<2, 1>>, dtype |-> "int64"] }

LastArrayKinds ==
  ArrayKinds \cup {[shape |-> <<1, 1>>, dtype |-> "float64"]}

MakeArray(k, kind) ==
  [shape |-> kind.shape, dtype |-> kind.dtype,
   data |-> [p \in Box(kind.shape) |-> 10 * k + ravel_index(p, kind.shape)]]

GridShapes == {<<2, 2>>, <<1, -1>>, <<-1, 1>>, <<1, 2>>, <<-1>>}

\* A background is a scalar, or a vector over the last tail dimension when
\* the arrays have tail dimensions under the grid.
Backgrounds(shp) ==
  {Scalar(0)} \cup (IF Len(shp) < 2 THEN {Vector(<<7, 8, 9>>)} ELSE {})

Spacings == {Scalar(0), Scalar(-1), Vector(<<2, 1>>)}

Roundings == {Scalar(FALSE), Scalar(TRUE), Vector(<<TRUE, FALSE>>)}

\* Alignments: one code, one code per axis, one code per array, and one
\* code per array of which the last is not an alignment code.
PerArray(n, last) ==
  Matrix([k \in 1 .. n |->
            IF k = n THEN <<last>>
            ELSE IF k = 1 THEN <<"start">> ELSE <<"center">>])

Aligns(n) ==
  {Scalar("center"), Vector(<<"start", "stop">>)}
    \cup (IF n > 0 THEN {PerArray(n, "stop"), PerArray(n, "middle")} ELSE {})

AssembleIdle ==
  /\ arrays = <<>>
  /\ shape = <<>>
  /\ background = Scalar(0)
  /\ align = Scalar("center")
  /\ spacing = Scalar(0)
  /\ round_to_even = Scalar(FALSE)
  /\ axis_lengths = <<>>
  /\ axis_origins = <<>>
  /\ output_array = <<>>
  /\ slices = <<>>
  /\ i = 0
  /\ pc = "idle"

AssembleStart ==
  /\ \E n \in 0 .. MaxArrays :
       \E kinds \in [1 .. n -> LastArrayKinds] :
          /\ \A k \in 1 .. (n - 1) : kinds[k] \in ArrayKinds
          /\ arrays = [k \in 1 .. n |-> MakeArray(k, kinds[k])]
          /\ align \in Aligns(n)
  /\ shape \in GridShapes
  /\ background \in Backgrounds(shape)
  /\ spacing \in Spacings
  /\ round_to_even \in Roundings
  /\ axis_lengths = <<>>
  /\ axis_origins = <<>>
  /\ output_array = <<>>
  /\ slices = <<>>
  /\ i = 0
  /\ pc = "call"

\* Lines 1880-1922 raising: the call ends with no array.
AssembleReject ==
  /\ pc = "call"
  /\ SetupRaises
  /\ pc' = "raised"
  /\ UNCHANGED <<arrays, shape, background, align, spacing, round_to_even,
                 axis_lengths, axis_origins, output_array, slices, i>>
  /\ UNCHANGED <<gfiVars, cropVars, fitVars, ovVars, ufVars, bsVars, taVars>>

\* Lines 1880-1922 completing: the layout is computed and the output array
\* allocated, filled with the background.
AssembleSetup ==
  /\ pc = "call"
  /\ ~ SetupRaises
  /\ axis_lengths' = [a \in 1 .. GridRank |-> Lengths(a)]
  /\ axis_origins' = [a \in 1 .. GridRank |-> Origins(a)]
  /\ output_array' = np_full(output_shape, background, arrays[1].dtype)
  /\ slices' = <<>>
  /\ i' = 0
  /\ pc' = "copy"
  /\ UNCHANGED <<arrays, shape, background, align, spacing, round_to_even>>
  /\ UNCHANGED <<gfiVars, cropVars, fitVars, ovVars, ufVars, bsVars, taVars>>

\* One iteration of the copy loop (lines 1932-1941) completing.
CopyArray ==
  /\ pc = "copy"
  /\ i < num
  /\ ~ CopyRaises(i + 1)
  /\ LET sl == SlicesOf(i + 1)
     IN  /\ output_array' = AssignSlices(output_array, sl, arrays[i + 1])
         /\ slices' = Append(slices, sl)
  /\ i' = i + 1
  /\ UNCHANGED <<arrays, shape, background, align, spacing, round_to_even,
                 axis_lengths, axis_origins, pc>>
  /\ UNCHANGED <<gfiVars, cropVars, fitVars, ovVars, ufVars, bsVars, taVars>>

\* One iteration of the copy loop raising.
CopyRaise ==
  /\ pc = "copy"
  /\ i < num
  /\ CopyRaises(i + 1)
  /\ pc' = "raised"
  /\ UNCHANGED <<arrays, shape, background, align, spacing, round_to_even,
                 axis_lengths, axis_origins, output_array, slices, i>>
  /\ UNCHANGED <<gfiVars, cropVars, fitVars, ovVars, ufVars, bsVars, taVars>>

\* Line 1943.
AssembleReturn ==
  /\ pc = "copy"
  /\ i = num
  /\ pc' = "returned"
  /\ UNCHANGED <<arrays, shape, background, align, spacing, round_to_even,
                 axis_lengths, axis_origins, output_array, slices, i>>
  /\ UNCHANGED <<gfiVars, cropVars, fitVars, ovVars, ufVars, bsVars, taVars>>

AssembleNext ==
  \/ AssembleReject
  \/ AssembleSetup
  \/ CopyArray
  \/ CopyRaise
  \/ AssembleReturn


----------------------------------------------------------------------------
(* Claims about assemble_arrays. *)

Returned == pc = "returned"

NonNegativeSpacing == \A a \in 1 .. GridRank : spacing2[a] >= 0

\* The grid cell of array number k along axis a: [CellLo, CellHi).
CellLo(k, a) == axis_origins[a][unravel_index(k - 1, grid)[a]]

CellHi(k, a) == CellLo(k, a) + axis_lengths[a][unravel_index(k - 1, grid)[a]]

\* Array k was written whole into a box inside its grid cell.
WrittenInCell(k) ==
  \A a \in 1 .. GridRank :
     /\ CellLo(k, a) <= slices[k][a].start
     /\ slices[k][a].stop = slices[k][a].start + arrays[k].shape[a]
     /\ slices[k][a].stop <= CellHi(k, a)
     /\ slices[k][a].stop <= output_array.shape[a]

\* The output index that holds element p of array k.
PlaceOf(k, p) ==
  [a \in 1 .. Len(p) |-> IF a <= GridRank THEN slices[k][a].start + p[a] ELSE p[a]]

\* Every element of array k is in the output, unchanged, at its place.
AppearsUnchanged(k) ==
  \A p \in DOMAIN arrays[k].data :
     /\ PlaceOf(k, p) \in DOMAIN output_array.data
     /\ output_array.data[PlaceOf(k, p)] = arrays[k].data[p]

Contained == \A k \in 1 .. num : WrittenInCell(k) /\ AppearsUnchanged(k)

\* C1 as stated: whenever assemble_arrays returns, every input array was
\* written whole into a box inside the grid cell that row-major order
\* assigns to it, and every one of its elements is in the output unchanged.
C1_ContainmentAnySpacing == Returned => Contained

\* C1, amended: the same, for calls whose spacing is non-negative on every
\* grid axis.
C1_Containment == (Returned /\ NonNegativeSpacing) => Contained

\* A call that returned three arrays of different shapes packed into a 2x2
\* grid, with spacing between the cells and slack inside them.
C1_Witness ==
  /\ Returned
  /\ NonNegativeSpacing
  /\ num = 3
  /\ grid = <<2, 2>>
  /\ \E a \in 1 .. GridRank : spacing2[a] > 0
  /\ \E k \in 1 .. num : \E a \in 1 .. GridRank :
        slices[k][a].start > CellLo(k, a) /\ slices[k][a].stop < CellHi(k, a)
  /\ Contained

\* The output indices written by array number k.
WrittenRegion(k) == Region(output_array, slices[k])

Disjoint ==
  \A k1 \in 1 .. Len(slices) : \A k2 \in 1 .. Len(slices) :
     k1 # k2 => WrittenRegion(k1) \cap WrittenRegion(k2) = {}

\* C2 as stated: whenever assemble_arrays returns, with any accepted
\* spacing, the regions written by two distinct arrays do not intersect.
C2_NoOverlapAnySpacing == Returned => Disjoint

\* C2, amended: whenever assemble_arrays returns from a call whose spacing
\* is non-negative on every grid axis, the regions written by two distinct
\* arrays do not intersect.
C2_NoOverlap == (Returned /\ NonNegativeSpacing) => Disjoint

\* A call that returned with three arrays written, flush against each other
\* on an axis without spacing, and the output rounded to even.
C2_Witness ==
  /\ Returned
  /\ NonNegativeSpacing
  /\ num = 3
  /\ \E a \in 1 .. GridRank : spacing2[a] = 0 /\ grid[a] > 1
  /\ \E a \in 1 .. GridRank : round_to_even2[a]
  /\ \A k \in 1 .. num : WrittenRegion(k) # {}
  /\ Disjoint

\* The element of the background at output index p.
BackgroundAt(p) ==
  IF background.ndim = 0 THEN background.v ELSE background.v[p[Len(p)] + 1]

Unwritten ==
  {p \in DOMAIN output_array.data :
     \A k \in 1 .. Len(slices) : ~ InSlices(output_array, slices[k], p)}

\* C3: in the array assemble_arrays returns, every element outside the
\* regions written by the input arrays equals the background value,
\* broadcast over the tail dimensions.
C3_BackgroundElsewhere ==
  Returned => \A p \in Unwritten : output_array.data[p] = BackgroundAt(p)

\* A returned grid with a placeholder cell, spacing, an axis lengthened by
\* even-rounding and slack inside a cell, all holding the background.
C3_Witness ==
  /\ Returned
  /\ Prod(grid) > num
  /\ \E a \in 1 .. GridRank : spacing2[a] > 0 /\ grid[a] > 1
  /\ \E a \in 1 .. GridRank : axis_lengths[a] # MaxLengths(a)
  /\ \E k \in 1 .. num : \E a \in 1 .. GridRank :
        slices[k][a].stop < CellHi(k, a)
  /\ Unwritten # {}
  /\ \A p \in Unwritten : output_array.data[p] = BackgroundAt(p)

\* The same with a vector background broadcast over a tail dimension.
C3_WitnessTail ==
  /\ Returned
  /\ background.ndim = 1
  /\ Unwritten # {}

----------------------------------------------------------------------------
(* grid_from_indices *)

\* The largest number of coordinates of one grid_from_indices call.
MaxIndices == 2

\* An argument left at its default None.
None == [ndim |-> -1, v |-> 0]

IsNone(a) == a.ndim = -1

\* np.array(list(iterable_or_map)): the coordinates, in iteration order (for
\* a mapping, its keys); a scalar coordinate is a row of one entry (lines
\* 1751-1753).
indices == iterable_or_map.keys

NumIndices == Len(indices)

\* D, indices.shape[1].
Rank == Len(indices[1])

\* The value assigned to coordinate number j (line 1767).
AssignedValue(j) ==
  IF iterable_or_map.is_map THEN iterable_or_map.values[j] ELSE foreground

\* Lines 1755-1756.
i_min ==
  IF IsNone(indices_min)
    THEN [a \in 1 .. Rank |-> MinOf({indices[j][a] : j \in 1 .. NumIndices})]
    ELSE broadcast_to1(indices_min, Rank)

i_max ==
  IF IsNone(indices_max)
    THEN [a \in 1 .. Rank |-> MaxOf({indices[j][a] : j \in 1 .. NumIndices})]
    ELSE broadcast_to1(indices_max, Rank)

a_pad == broadcast_to1(gfi_pad, Rank)

\* Mutant of gfi_shape: the pad is counted on one side only.
gfi_shape_pad_once == [a \in 1 .. Rank |-> i_max[a] - i_min[a] + a_pad[a] + 1]

\* shape (line 1758).
gfi_shape == [a \in 1 .. Rank |-> i_max[a] - i_min[a] + 2 * a_pad[a] + 1]

\* offset (line 1759).
gfi_offset == [a \in 1 .. Rank |-> a_pad[a] - i_min[a]]

\* elems (lines 1760-1761) and the shape they broadcast to (line 1762): the
\* elements are scalars or vectors.
elems ==
  (IF iterable_or_map.is_map THEN <<iterable_or_map.values[1]>> ELSE <<>>)
    \o <<gfi_background, foreground>>

ElemLengths == {Len(elems[k].v) : k \in {q \in 1 .. Len(elems) : elems[q].ndim = 1}}

CanBroadcastElems == Cardinality(ElemLengths \ {1}) <= 1

ElemShape ==
  IF ElemLengths = {} THEN <<>>
  ELSE IF ElemLengths = {1} THEN <<1>>
  ELSE <<CHOOSE n \in ElemLengths : n # 1>>

\* shape2 (line 1762).
shape2 == gfi_shape \o ElemShape

\* Coordinate number j after `indices += offset` (line 1766).
Shifted(j) == [a \in 1 .. Rank |-> indices[j][a] + gfi_offset[a]]

\* An index array entry k selects position k of an axis of extent n, or
\* position n + k when k is negative; outside [-n, n) it is an IndexError.
IndexInRange(k, n) == -n <= k /\ k < n

WrapIndex(k, n) == IF k < 0 THEN n + k ELSE k

\* The position of grid that coordinate number j is written to.
Target(j) == [a \in 1 .. Rank |-> WrapIndex(Shifted(j)[a], gfi_shape[a])]

\* Mutant of ScatterAssign: of several coordinates at one position the
\* first stays.
RECURSIVE ScatterAssign_first_stays(_, _)
ScatterAssign_first_stays(data, j) ==
  IF j > NumIndices THEN data
  ELSE LET rest == ScatterAssign_first_stays(data, j + 1)
       IN  [p \in DOMAIN data |->
              IF SubSeq(p, 1, Rank) = Target(j) THEN ValueAt(AssignedValue(j), p)
              ELSE rest[p]]

\* grid[tuple(indices.T)] = values (line 1767): the coordinates are assigned
\* in order, so that of several at one position the last stays.
RECURSIVE ScatterAssign(_, _)
ScatterAssign(data, j) ==
  IF j > NumIndices THEN data
  ELSE ScatterAssign(
         [p \in DOMAIN data |->
            IF SubSeq(p, 1, Rank) = Target(j) THEN ValueAt(AssignedValue(j), p)
            ELSE data[p]],
         j + 1)

\* Whether the call raises: no coordinate (the assertion of line 1754),
\* bounds or pad that do not broadcast to the rank, values that do not
\* broadcast, a negative extent, or an index out of range.
GridRaises ==
  IF NumIndices = 0 THEN TRUE
  ELSE IF ~ IsNone(indices_min) /\ ~ CanBroadcast1(indices_min, Rank) THEN TRUE
  ELSE IF ~ IsNone(indices_max) /\ ~ CanBroadcast1(indices_max, Rank) THEN TRUE
  ELSE IF ~ CanBroadcast1(gfi_pad, Rank) THEN TRUE
  ELSE IF ~ CanBroadcastElems THEN TRUE
  ELSE IF ~ CanFull(shape2, gfi_background) THEN TRUE
  ELSE \E j \in 1 .. NumIndices : \E a \in 1 .. Rank :
          ~ IndexInRange(Shifted(j)[a], gfi_shape[a])

\* The coordinates the model draws from.
CoordValues == -1 .. 1

Coords == [1 .. 1 -> CoordValues] \cup [1 .. 2 -> CoordValues]

\* An iterable of coordinates (which may repeat), or a mapping from
\* coordinates (its keys, distinct) to scalars or to vectors.
Iterables ==
  {[is_map |-> FALSE, keys |-> ks, values |-> <<>>] :
     ks \in {q \in UNION {[1 .. n -> Coords] : n \in 0 .. MaxIndices} :
               \A j \in 1 .. Len(q) : Len(q[j]) = Len(q[1])}}

Mappings ==
  {[is_map |-> TRUE, keys |-> it.keys,
    values |-> [j \in 1 .. Len(it.keys) |->
                  IF vec THEN Vector(<<10 * j, 10 * j + 1>>) ELSE Scalar(10 * j)]] :
     it \in {q \in Iterables :
               \A j1 \in 1 .. Len(q.keys) : \A j2 \in 1 .. Len(q.keys) :
                  j1 # j2 => q.keys[j1] # q.keys[j2]},
     vec \in BOOLEAN}

MinBounds == {None, Scalar(0), Vector(<<-1, 0>>)}

MaxBounds == {None, Scalar(1), Vector(<<1, 2>>)}

Pads == {Scalar(0), Scalar(1), Vector(<<1, 0>>)}

GridIdle ==
  /\ iterable_or_map = [is_map |-> FALSE, keys |-> <<>>, values |-> <<>>]
  /\ gfi_background = Scalar(0)
  /\ foreground = Scalar(1)
  /\ indices_min = None
  /\ indices_max = None
  /\ gfi_pad = Scalar(0)
  /\ gfi_grid = <<>>
  /\ gfi_pc = "idle"

GridStart ==
  /\ iterable_or_map \in Iterables \cup Mappings
  /\ gfi_background = Scalar(0)
  /\ foreground = Scalar(1)
  /\ indices_min \in MinBounds
  /\ indices_max \in MaxBounds
  /\ gfi_pad \in Pads
  /\ gfi_grid = <<>>
  /\ gfi_pc = "call"

\* The call raising.
GridRaise ==
  /\ gfi_pc = "call"
  /\ GridRaises
  /\ gfi_pc' = "raised"
  /\ UNCHANGED <<iterable_or_map, gfi_background, foreground, indices_min,
                 indices_max, gfi_pad, gfi_grid>>
  /\ UNCHANGED <<asmVars, cropVars, fitVars, ovVars, ufVars, bsVars, taVars>>

\* The call returning grid (lines 1751-1768).
GridReturn ==
  /\ gfi_pc = "call"
  /\ ~ GridRaises
  /\ gfi_grid' =
       [np_full(shape2, gfi_background, "int64") EXCEPT
          !.data = ScatterAssign(@, 1)]
  /\ gfi_pc' = "returned"
  /\ UNCHANGED <<iterable_or_map, gfi_background, foreground, indices_min,
                 indices_max, gfi_pad>>
  /\ UNCHANGED <<asmVars, cropVars, fitVars, ovVars, ufVars, bsVars, taVars>>

GridNext == GridRaise \/ GridReturn

\* The call is over or under way.
Called == pc \in {"copy", "returned", "raised"}

EmptyInput == Len(arrays) = 0

MixedTypes ==
  \E k1 \in 1 .. Len(arrays) : \E k2 \in 1 .. Len(arrays) :
     arrays[k1].dtype # arrays[k2].dtype

\* The dimensions of array number k beyond the grid rank.
TailBeyondGrid(k) ==
  SubSeq(arrays[k].shape, Len(shape) + 1, Len(arrays[k].shape))

MixedTails ==
  \E k1 \in 1 .. Len(arrays) : \E k2 \in 1 .. Len(arrays) :
     TailBeyondGrid(k1) # TailBeyondGrid(k2)

\* C18: a call of assemble_arrays with no input array, with input arrays of
\* different element types, or with input arrays of different tail
\* dimensions beyond the grid rank, raises, and does so before an output
\* array is allocated: it returns no array.
C18_InputsRejected ==
  (Called /\ (EmptyInput \/ MixedTypes \/ MixedTails)) =>
    pc = "raised" /\ output_array = <<>>

\* Two arrays of one type, in a grid that has room for them, whose tail
\* dimensions differ: rejected.
C18_Witness ==
  /\ pc = "raised"
  /\ Len(arrays) = 2
  /\ ~ MixedTypes
  /\ MixedTails
  /\ ~ fit_shape_raises(shape, num)
  /\ output_array = <<>>

\* Arrays of different element types: rejected.
C18_WitnessTypes ==
  /\ pc = "raised"
  /\ MixedTypes
  /\ ~ MixedTails
  /\ ~ fit_shape_raises(shape, num)
  /\ output_array = <<>>

\* No array: rejected.
C18_WitnessEmpty ==
  /\ pc = "raised"
  /\ EmptyInput

\* The arrays to which, on some grid axis, a code applies that is not
\* 'start', 'center' or 'stop'.
BadlyAligned ==
  {k \in 1 .. num :
     \E a \in 1 .. GridRank : align2[k][a] \notin {"start", "center", "stop"}}

\* C19: a call of assemble_arrays in which a code other than 'start',
\* 'center', 'stop' applies to some (input array, grid axis) pair never
\* returns an array: the copy loop does not get past the first such array,
\* where offset raises.
C19_InvalidAlignRaises ==
  (pc \in {"copy", "returned"} /\ BadlyAligned # {}) =>
    /\ pc = "copy"
    /\ i < MinOf(BadlyAligned)

\* The call raising at the last of three arrays, the only one with a code
\* that is not recognized.
C19_Witness ==
  /\ pc = "raised"
  /\ output_array # <<>>
  /\ num = 3
  /\ BadlyAligned = {3}
  /\ i = 2

\* C20: in assemble_arrays every failure is raised before any input array
\* has been copied into the output array: no call copies one or more input
\* arrays and then raises.
C20_NoWriteThenFail == pc = "raised" => i = 0

\* C20 for the validation of the grid shape, of the element types and of
\* the tail dimensions: these failures are raised before the output array
\* is allocated.
C20_SetupFailuresBeforeWrite ==
  (pc = "raised"
     /\ (EmptyInput \/ fit_shape_raises(shape, num) \/ MixedTypes \/ MixedTails)) =>
    i = 0 /\ output_array = <<>>

\* A call that copies its first array and then raises on the alignment
\* code of the second.
C20_WriteThenFail ==
  /\ pc = "raised"
  /\ num = 2
  /\ i = 1
  /\ Len(slices) = 1
  /\ BadlyAligned = {2}
  /\ \E p \in DOMAIN output_array.data : output_array.data[p] = arrays[1].data[<<0, 0>>]

\* The layout is computed and the output array allocated.
LaidOut == pc \in {"copy", "returned"}

\* The extent along axis a of the array assigned to grid cell `cell`, and 0
\* for a cell beyond the number of arrays.
ExtentIn(cell, a) ==
  LET k == ravel_index(cell, grid)
  IN  IF k < num THEN arrays[k + 1].shape[a] ELSE 0

\* The largest extent along axis a over the grid cells of coordinate c.
CellMax(a, c) ==
  MaxOf({ExtentIn(cell, a) : cell \in {q \in Box(grid) : q[a] = c}})

\* The sum of the cell lengths before rounding, plus the spacing between
\* the cells.
TotalLength(a) ==
  SumSeq([c \in 1 .. grid[a] |-> CellMax(a, c - 1)]) + spacing2[a] * (grid[a] - 1)

RoundedUp(a) == round_to_even2[a] /\ TotalLength(a) % 2 = 1

\* C27: once assemble_arrays has laid out the grid, the extent of the output
\* along each grid axis is the sum of the cell lengths plus spacing times
\* (cells - 1); where round_to_even is set and that total is odd, the last
\* cell is one longer and the extent one more, hence even; otherwise the
\* extent is the total exactly.
C27_AxisExtent ==
  LaidOut =>
    \A a \in 1 .. GridRank :
       /\ output_array.shape[a]
            = SumSeq([c \in 1 .. grid[a] |-> axis_lengths[a][c - 1]])
                + spacing2[a] * (grid[a] - 1)
       /\ RoundedUp(a) =>
            /\ axis_lengths[a][grid[a] - 1] = CellMax(a, grid[a] - 1) + 1
            /\ output_array.shape[a] = TotalLength(a) + 1
       /\ round_to_even2[a] => output_array.shape[a] % 2 = 0
       /\ ~ RoundedUp(a) => output_array.shape[a] = TotalLength(a)

\* A call returned in which one axis was rounded up to an even extent and
\* another axis, of odd extent, was left as it is.
C27_Witness ==
  /\ Returned
  /\ GridRank = 2
  /\ \E a \in 1 .. GridRank : RoundedUp(a)
  /\ \E a \in 1 .. GridRank :
        ~ round_to_even2[a] /\ output_array.shape[a] % 2 = 1
  /\ \E a \in 1 .. GridRank : spacing2[a] > 0 /\ grid[a] > 1

\* C28: the length of the cell of coordinate c along an axis, before the
\* rounding, is the largest extent over the arrays assigned to the grid cells
\* of that coordinate, the cells beyond the number of arrays counting 0; so
\* no array is longer than its cell.
C28_CellLengths ==
  LaidOut =>
    /\ \A a \in 1 .. GridRank : \A c \in 0 .. (grid[a] - 1) :
          axis_lengths[a][c]
            = CellMax(a, c) + (IF c = grid[a] - 1 /\ RoundedUp(a) THEN 1 ELSE 0)
    /\ \A k \in 1 .. num : \A a \in 1 .. GridRank :
          arrays[k].shape[a] <= axis_lengths[a][unravel_index(k - 1, grid)[a]]

\* A laid out call in which a cell length is set by an array that is not the
\* first of its slice, and in which some slice has only cells beyond the
\* number of arrays.
C28_Witness ==
  /\ LaidOut
  /\ \E k \in 1 .. num : \E a \in 1 .. GridRank :
        LET c == unravel_index(k - 1, grid)
        IN  /\ arrays[k].shape[a] = axis_lengths[a][c[a]]
            /\ ExtentIn([b \in 1 .. GridRank |-> IF b = a THEN c[a] ELSE 0], a)
                 < arrays[k].shape[a]
  /\ \E a \in 1 .. GridRank : \E c \in 0 .. (grid[a] - 1) :
        /\ \A q \in Box(grid) : q[a] = c => ravel_index(q, grid) >= num
        /\ axis_lengths[a][c] = 0

\* The origin of the cell of coordinate c: the lengths of the preceding
\* cells, each with the spacing after it.
OriginOf(a, c) ==
  SumSeq([j \in 1 .. c |-> axis_lengths[a][j - 1] + spacing2[a]])

\* The offset of an extent e in a cell of length L under an alignment code.
AlignedOffset(L, e, code) ==
  CASE code = "start"  -> 0
    [] code = "stop"   -> L - e
    [] code = "center" -> (L - e) \div 2

\* C29: every array copied by assemble_arrays starts, on each grid axis, at
\* origin(c) + off, where c is the coordinate of its cell, origin(c) the sum
\* over the preceding cells of (length + spacing), and off is 0 for 'start',
\* L - e for 'stop' and floor((L - e) / 2) for 'center', with L the length
\* of the cell and e the extent of the array.
C29_ArrayStart ==
  LaidOut =>
    \A k \in 1 .. Len(slices) : \A a \in 1 .. GridRank :
       LET c == unravel_index(k - 1, grid)[a]
       IN  /\ axis_origins[a][c] = OriginOf(a, c)
           /\ slices[k][a].start
                = OriginOf(a, c)
                    + AlignedOffset(axis_lengths[a][c], arrays[k].shape[a],
                                    align2[k][a])

\* A call returned with three arrays, spacing between the cells, a cell
\* preceded by two others, and arrays aligned 'stop' and 'center' with an
\* odd slack in their cells.
C29_Witness ==
  /\ Returned
  /\ num = 3
  /\ \E a \in 1 .. GridRank : spacing2[a] > 0 /\ grid[a] > 1
  /\ \E k \in 1 .. num : \E a \in 1 .. GridRank :
        unravel_index(k - 1, grid)[a] = 2
  /\ \E k \in 1 .. num : \E a \in 1 .. GridRank :
        /\ align2[k][a] = "center"
        /\ (axis_lengths[a][unravel_index(k - 1, grid)[a]] - arrays[k].shape[a]) % 2 = 1
  /\ \E k \in 1 .. num : \E a \in 1 .. GridRank :
        /\ align2[k][a] = "stop"
        /\ axis_lengths[a][unravel_index(k - 1, grid)[a]] > arrays[k].shape[a]

----------------------------------------------------------------------------
(* Claims about grid_from_indices. *)

GridReturned == gfi_pc = "returned"

\* c - min + pad for coordinate number j.
PlaceOfIndex(j) == [a \in 1 .. Rank |-> indices[j][a] - i_min[a] + a_pad[a]]

\* Position PlaceOfIndex(j) exists and holds the value assigned to j.
HoldsAssigned(j) ==
  /\ \A a \in 1 .. Rank :
        0 <= PlaceOfIndex(j)[a] /\ PlaceOfIndex(j)[a] < gfi_grid.shape[a]
  /\ \A p \in DOMAIN gfi_grid.data :
        SubSeq(p, 1, Rank) = PlaceOfIndex(j)
          => gfi_grid.data[p] = ValueAt(AssignedValue(j), p)

BackgroundElsewhere ==
  \A p \in DOMAIN gfi_grid.data :
     (\A j \in 1 .. NumIndices : SubSeq(p, 1, Rank) # PlaceOfIndex(j))
       => gfi_grid.data[p] = ValueAt(gfi_background, p)

\* C4: the array grid_from_indices returns holds, at position c - min + pad,
\* the value assigned to each input coordinate c, and the background at
\* every other position.
C4_SparseGrid ==
  GridReturned => (\A j \in 1 .. NumIndices : HoldsAssigned(j)) /\ BackgroundElsewhere

\* Coordinate number j lies outside [min - pad, max + pad] on some axis.
OutOfBounds(j) ==
  \E a \in 1 .. Rank :
     \/ indices[j][a] < i_min[a] - a_pad[a]
     \/ indices[j][a] > i_max[a] + a_pad[a]

BoundsSupplied == ~ IsNone(indices_min) \/ ~ IsNone(indices_max)

\* C4 restricted to the calls in which no coordinate lies outside the
\* bounds: there the array is as C4 says.
C4_WithinBounds ==
  (GridReturned /\ \A j \in 1 .. NumIndices : ~ OutOfBounds(j))
    => (\A j \in 1 .. NumIndices : HoldsAssigned(j)) /\ BackgroundElsewhere

\* C5: with bounds supplied and a coordinate outside [min - pad, max + pad]
\* on some axis, above or below, grid_from_indices raises: it never returns
\* an array with that coordinate written into it.
C5_OutOfBoundsRaises ==
  (gfi_pc # "call" /\ NumIndices > 0 /\ BoundsSupplied
     /\ \E j \in 1 .. NumIndices : OutOfBounds(j))
    => gfi_pc = "raised"

\* C5 for the coordinates above the upper bound only: these do raise.
C5_AboveRaises ==
  (gfi_pc # "call" /\ NumIndices > 0 /\ BoundsSupplied
     /\ \E j \in 1 .. NumIndices : \E a \in 1 .. Rank :
           indices[j][a] > i_max[a] + a_pad[a])
    => gfi_pc = "raised"

\* The bound of axis a: the one given (one value for all axes, or one per
\* axis), or else the one computed from the coordinates.
BoundOf(given, computed, a) ==
  IF IsNone(given) THEN computed
  ELSE IF given.ndim = 0 THEN given.v
  ELSE IF Len(given.v) = 1 THEN given.v[1]
  ELSE given.v[a]

MinOnAxis(a) ==
  BoundOf(indices_min, MinOf({indices[j][a] : j \in 1 .. NumIndices}), a)

MaxOnAxis(a) ==
  BoundOf(indices_max, MaxOf({indices[j][a] : j \in 1 .. NumIndices}), a)

PadOnAxis(a) == BoundOf(gfi_pad, 0, a)

\* C6: the array grid_from_indices returns has, on each axis d, the extent
\* max_d - min_d + 2*pad_d + 1, with min and max those of the coordinates
\* unless given, and pad one value or one per axis.
C6_Extent ==
  GridReturned =>
    /\ Len(gfi_grid.shape) >= Rank
    /\ \A a \in 1 .. Rank :
          gfi_grid.shape[a] = MaxOnAxis(a) - MinOnAxis(a) + 2 * PadOnAxis(a) + 1

\* A returned array of rank 2 with the minimum given per axis, the maximum
\* computed from two coordinates, and a pad per axis.
C6_Witness ==
  /\ GridReturned
  /\ Rank = 2
  /\ NumIndices = 2
  /\ indices_min.ndim = 1
  /\ IsNone(indices_max)
  /\ gfi_pad.ndim = 1
  /\ \E a \in 1 .. Rank : PadOnAxis(a) > 0
  /\ \A a \in 1 .. Rank :
        gfi_grid.shape[a] = MaxOnAxis(a) - MinOnAxis(a) + 2 * PadOnAxis(a) + 1

\* Some coordinate is supplied more than once.
RepeatedCoordinate ==
  \E j1 \in 1 .. NumIndices : \E j2 \in 1 .. NumIndices :
     j1 # j2 /\ indices[j1] = indices[j2]

\* The last of the coordinates that resolve to the output position of
\* coordinate number j.
LastAt(j) == MaxOf({k \in 1 .. NumIndices : Target(k) = Target(j)})

\* C22: a call of grid_from_indices with a coordinate supplied more than
\* once, and bounds and pad left to their defaults, does not raise; and in
\* the array of every call that returns, the output position of each
\* coordinate holds the value of the last coordinate supplied that
\* resolves to that position.
C22_LastWriteWins ==
  /\ (gfi_pc # "call" /\ RepeatedCoordinate /\ IsNone(indices_min)
        /\ IsNone(indices_max) /\ gfi_pad = Scalar(0)) => GridReturned
  /\ GridReturned =>
       \A j \in 1 .. NumIndices : \A p \in DOMAIN gfi_grid.data :
          SubSeq(p, 1, Rank) = Target(j)
            => gfi_grid.data[p] = ValueAt(AssignedValue(LastAt(j)), p)

\* Two coordinates of a mapping, with different values, that resolve to one
\* position: it holds the value of the second.
C22_Witness ==
  /\ GridReturned
  /\ iterable_or_map.is_map
  /\ NumIndices = 2
  /\ Target(1) = Target(2)
  /\ AssignedValue(1) # AssignedValue(2)
  /\ \A p \in DOMAIN gfi_grid.data :
        SubSeq(p, 1, Rank) = Target(2)
          => gfi_grid.data[p] = ValueAt(AssignedValue(2), p)

\* One coordinate supplied twice in an iterable: the call returns, with the
\* foreground at its position.
C22_WitnessRepeated ==
  /\ GridReturned
  /\ ~ iterable_or_map.is_map
  /\ RepeatedCoordinate
  /\ \A p \in DOMAIN gfi_grid.data :
        SubSeq(p, 1, Rank) = Target(2) => gfi_grid.data[p] = foreground.v

----------------------------------------------------------------------------
(* pad_array *)

\* np.asarray(value).shape of a broadcastable argument.
ShapeOf(value) == IF value.ndim = 0 THEN <<>> ELSE <<Len(value.v)>>

\* pad after lines 1472-1473: one (before, after) pair per padded axis.  A
\* scalar pad is broadcast onto (array.ndim - value.ndim, 2).
PadRows(array, pad, value) ==
  IF pad.ndim = 0
  THEN [r \in 1 .. (Len(array.shape) - value.ndim) |-> <<pad.v, pad.v>>]
  ELSE pad.v

\* Whether np.pad (line 1479) raises ValueError: a pad that cannot be
\* broadcast onto (array.ndim, 2), a negative width, or no axis at all.  One
\* pair alone stands for every axis, also for none.
np_pad_raises(array, rows) ==
  LET ndim == Len(array.shape)
      negative == \E r \in 1 .. Len(rows) : rows[r][1] < 0 \/ rows[r][2] < 0
  IN  IF Len(rows) > ndim THEN (IF Len(rows) = 1 THEN negative ELSE TRUE)
      ELSE IF ndim = 0 THEN TRUE
      ELSE negative

\* Mutant of pad_array_error: the shape of value is not checked.
pad_array_error_unchecked(array, pad, value) ==
  IF pad.ndim = 0 /\ Len(array.shape) < value.ndim THEN "ValueError"
  ELSE IF np_pad_raises(array, PadRows(array, pad, value)) THEN "ValueError"
  ELSE "none"

\* What pad_array(array, pad, value) raises: ValueError from broadcast_to
\* (line 1473), AssertionError from check_eq (line 1474), ValueError from
\* np.pad (line 1479), or "none".
pad_array_error(array, pad, value) ==
  IF pad.ndim = 0 /\ Len(array.shape) < value.ndim THEN "ValueError"
  ELSE LET rows == PadRows(array, pad, value)
       IN  IF ShapeOf(value) #
                SubSeq(array.shape, Len(rows) + 1, Len(array.shape))
           THEN "AssertionError"
           ELSE IF np_pad_raises(array, rows) THEN "ValueError"
           ELSE "none"

\* Whether pad_array(array, pad, value) raises.
pad_array_raises(array, pad, value) ==
  pad_array_error(array, pad, value) # "none"

\* Mutant of np_pad: the padded array holds the constant everywhere.
np_pad_without_input(array, rows, cval) ==
  LET ndim == Len(array.shape)
      before == [a \in 1 .. ndim |-> IF a <= Len(rows) THEN rows[a][1] ELSE 0]
      after == [a \in 1 .. ndim |-> IF a <= Len(rows) THEN rows[a][2] ELSE 0]
      shp == [a \in 1 .. ndim |-> before[a] + array.shape[a] + after[a]]
  IN  [shape |-> shp, data |-> [p \in Box(shp) |-> ValueAt(cval, p)]]

\* Mutant of np_pad: array is placed at offset 0 on every axis.
np_pad_at_origin(array, rows, cval) ==
  LET ndim == Len(array.shape)
      before == [a \in 1 .. ndim |-> IF a <= Len(rows) THEN rows[a][1] ELSE 0]
      after == [a \in 1 .. ndim |-> IF a <= Len(rows) THEN rows[a][2] ELSE 0]
      shp == [a \in 1 .. ndim |-> before[a] + array.shape[a] + after[a]]
  IN  [shape |-> shp,
       data |-> [p \in Box(shp) |->
                   IF \A a \in 1 .. ndim : p[a] < array.shape[a]
                   THEN array.data[p]
                   ELSE ValueAt(cval, p)]]

\* The array np.pad returns in constant mode: array at offset `before` on
\* every padded axis, and around it the constant of the nearest padded axis.
np_pad(array, rows, cval) ==
  LET ndim == Len(array.shape)
      before == [a \in 1 .. ndim |-> IF a <= Len(rows) THEN rows[a][1] ELSE 0]
      after == [a \in 1 .. ndim |-> IF a <= Len(rows) THEN rows[a][2] ELSE 0]
      shp == [a \in 1 .. ndim |-> before[a] + array.shape[a] + after[a]]
  IN  [shape |-> shp,
       data |-> [p \in Box(shp) |->
                   IF \A a \in 1 .. ndim :
                        before[a] <= p[a] /\ p[a] < before[a] + array.shape[a]
                   THEN array.data[[a \in 1 .. ndim |-> p[a] - before[a]]]
                   ELSE ValueAt(cval, p)]]

\* Mutant of pad_array: the border is filled with 0, whatever the value.
pad_array_zero_fill(array, pad, value) ==
  np_pad(array, PadRows(array, pad, value), Scalar(0))

\* pad_array(array, pad, value) when it does not raise (lines 1471-1479).
pad_array(array, pad, value) ==
  np_pad(array, PadRows(array, pad, value), value)

----------------------------------------------------------------------------
(* bounding_slices *)

\* np.atleast_1d(a): a rank-0 array becomes the rank-1 array of its element.
atleast_1d(a) ==
  IF a.shape = <<>>
  THEN [shape |-> <<1>>, data |-> [p \in Box(<<1>>) |-> a.data[<<>>]]]
  ELSE a

\* line.nonzero() of line = a.any(axis = every axis but dim), lines 1514-1515.
NonzeroIndices(a, dim) == {p[dim] : p \in {q \in DOMAIN a.data : a.data[q] # 0}}

\* Mutant of bounding_slices: the slice stops at vmax, not at vmax + 1.
bounding_slices_stop_at_vmax(a) ==
  LET a1 == atleast_1d(a)
  IN  [dim \in 1 .. Len(a1.shape) |->
         LET found == NonzeroIndices(a1, dim)
         IN  IF found # {}
             THEN [start |-> MinOf(found), stop |-> MaxOf(found)]
             ELSE [start |-> 0, stop |-> 0]]

\* Mutant of bounding_slices: with nothing found the slice is the whole axis.
bounding_slices_all_when_empty(a) ==
  LET a1 == atleast_1d(a)
  IN  [dim \in 1 .. Len(a1.shape) |->
         LET found == NonzeroIndices(a1, dim)
         IN  IF found # {}
             THEN [start |-> MinOf(found), stop |-> MaxOf(found) + 1]
             ELSE [start |-> 0, stop |-> a1.shape[dim]]]

\* bounding_slices(a), lines 1511-1521.
bounding_slices(a) ==
  LET a1 == atleast_1d(a)
  IN  [dim \in 1 .. Len(a1.shape) |->
         LET found == NonzeroIndices(a1, dim)
         IN  IF found # {}
             THEN [start |-> MinOf(found), stop |-> MaxOf(found) + 1]
             ELSE [start |-> 0, stop |-> 0]]

----------------------------------------------------------------------------
(* bounding_crop *)

\* Whether array != value broadcasts (line 1565), for an array of rank >= 1.
CanCompare(array, value) ==
  IF value.ndim = 0 THEN TRUE
  ELSE IF Len(value.v) = 1 THEN TRUE
  ELSE array.shape[Len(array.shape)] \in {1, Len(value.v)}

\* Mutant of Mask: the mask marks the positions that equal value in some
\* trailing component.
Mask_where_equal(array, value) ==
  IF value.ndim = 0
  THEN [shape |-> array.shape,
        data |-> [p \in DOMAIN array.data |->
                    IF array.data[p] = value.v THEN 1 ELSE 0]]
  ELSE LET ndim == Len(array.shape)
           m == array.shape[ndim]
           n == IF m = 1 THEN Len(value.v) ELSE m
           shp == SubSeq(array.shape, 1, ndim - 1)
       IN  [shape |-> shp,
            data |-> [q \in Box(shp) |->
                        IF \E j \in 0 .. (n - 1) :
                             array.data[q \o <<IF m = 1 THEN 0 ELSE j>>]
                               = value.v[IF Len(value.v) = 1 THEN 1 ELSE j + 1]
                        THEN 1 ELSE 0]]

\* mask = (array != value).any(axis), lines 1563-1565, for an array of rank
\* >= 1: True is 1 and False is 0, as numpy counts them.
Mask(array, value) ==
  IF value.ndim = 0
  THEN [shape |-> array.shape,
        data |-> [p \in DOMAIN array.data |->
                    IF array.data[p] # value.v THEN 1 ELSE 0]]
  ELSE LET ndim == Len(array.shape)
           m == array.shape[ndim]
           n == IF m = 1 THEN Len(value.v) ELSE m
           shp == SubSeq(array.shape, 1, ndim - 1)
       IN  [shape |-> shp,
            data |-> [q \in Box(shp) |->
                        IF \E j \in 0 .. (n - 1) :
                             array.data[q \o <<IF m = 1 THEN 0 ELSE j>>]
                               # value.v[IF Len(value.v) = 1 THEN 1 ELSE j + 1]
                        THEN 1 ELSE 0]]

\* array[sl] for a tuple sl of at most array.ndim slices (line 1566).
GetSlices(array, sl) ==
  LET ndim == Len(array.shape)
      lo == [a \in 1 .. ndim |->
               IF a <= Len(sl) THEN SliceRange(sl[a], array.shape[a]).lo ELSE 0]
      hi == [a \in 1 .. ndim |->
               IF a <= Len(sl) THEN SliceRange(sl[a], array.shape[a]).hi
               ELSE array.shape[a]]
      shp == [a \in 1 .. ndim |-> hi[a] - lo[a]]
  IN  [shape |-> shp,
       data |-> [p \in Box(shp) |->
                   array.data[[a \in 1 .. ndim |-> p[a] + lo[a]]]]]

\* array after line 1566.
CropToMask(array, value) ==
  GetSlices(array, bounding_slices(Mask(array, value)))

\* Whether bounding_crop(array, value, margin) raises: IndexError from
\* indexing a rank-0 array with one slice (line 1566), an error from a
\* comparison that does not broadcast (line 1565), or pad_array raising.
bounding_crop_raises(array, value, margin) ==
  IF Len(array.shape) = 0 THEN TRUE
  ELSE IF ~ CanCompare(array, value) THEN TRUE
  ELSE pad_array_raises(CropToMask(array, value), margin, value)

\* Mutant of bounding_crop: the cropped array is returned without its margin.
bounding_crop_no_margin(array, value, margin) == CropToMask(array, value)

\* bounding_crop(array, value, margin) when it does not raise.
bounding_crop(array, value, margin) ==
  pad_array(CropToMask(array, value), margin, value)

\* The largest extent of an axis of an input array.
MaxExtent == 2

\* The arrays the model draws from: ranks 0 to 2, extents 0 to MaxExtent,
\* elements 0 and 1.
CropShapes ==
  {<<>>} \cup [1 .. 1 -> 0 .. MaxExtent] \cup [1 .. 2 -> 0 .. MaxExtent]

CropArrays ==
  UNION {{[shape |-> s, data |-> f] : f \in [Box(s) -> {0, 1}]} : s \in CropShapes}

\* The reference values: a scalar, or one value per trailing component.
CropValues == {Scalar(0), Scalar(1), Vector(<<0, 1>>)}

\* The margins: a scalar, or one (before, after) pair per axis.
Margins ==
  {Scalar(0), Scalar(1), Scalar(-1),
   Matrix(<<<<0, 0>>>>), Matrix(<<<<1, 0>>>>),
   Matrix(<<<<0, 0>>, <<0, 0>>>>), Matrix(<<<<0, 1>>, <<1, 0>>>>)}

CropIdle ==
  /\ bc_array = [shape |-> <<0>>, data |-> <<>>]
  /\ bc_value = Scalar(0)
  /\ bc_margin = Scalar(0)
  /\ bc_slices = <<>>
  /\ bc_result = <<>>
  /\ cropped = <<>>
  /\ padded = <<>>
  /\ recropped = <<>>
  /\ pa_result = <<>>
  /\ pa_raised = "none"
  /\ bc_pc = "idle"

CropStart ==
  /\ bc_array \in CropArrays
  /\ bc_value \in CropValues
  /\ bc_margin \in Margins
  /\ bc_slices = <<>>
  /\ bc_result = <<>>
  /\ cropped = <<>>
  /\ padded = <<>>
  /\ recropped = <<>>
  /\ pa_result = <<>>
  /\ pa_raised = "none"
  /\ bc_pc = "call"

\* bounding_slices(bc_array): it has no raise path.
BoundingSlices ==
  /\ bc_pc = "call"
  /\ bc_slices' = bounding_slices(bc_array)
  /\ bc_pc' = "slices_returned"
  /\ UNCHANGED <<bc_array, bc_value, bc_margin, bc_result, cropped, padded,
                 recropped>>
  /\ UNCHANGED <<pa_result, pa_raised>>
  /\ UNCHANGED <<asmVars, gfiVars, fitVars, ovVars, ufVars, bsVars, taVars>>

\* bounding_crop(bc_array, bc_value, margin=bc_margin) raising.
BoundingCropRaise ==
  /\ bc_pc = "call"
  /\ bounding_crop_raises(bc_array, bc_value, bc_margin)
  /\ bc_pc' = "crop_raised"
  /\ UNCHANGED <<bc_array, bc_value, bc_margin, bc_slices, bc_result, cropped,
                 padded, recropped>>
  /\ UNCHANGED <<pa_result, pa_raised>>
  /\ UNCHANGED <<asmVars, gfiVars, fitVars, ovVars, ufVars, bsVars, taVars>>

\* bounding_crop(bc_array, bc_value, margin=bc_margin) returning.
BoundingCropReturn ==
  /\ bc_pc = "call"
  /\ ~ bounding_crop_raises(bc_array, bc_value, bc_margin)
  /\ bc_result' = bounding_crop(bc_array, bc_value, bc_margin)
  /\ bc_pc' = "crop_returned"
  /\ UNCHANGED <<bc_array, bc_value, bc_margin, bc_slices, cropped, padded,
                 recropped>>
  /\ UNCHANGED <<pa_result, pa_raised>>
  /\ UNCHANGED <<asmVars, gfiVars, fitVars, ovVars, ufVars, bsVars, taVars>>

\* The round trip, step 1: cropped = bounding_crop(bc_array, bc_value,
\* margin=0), raising.
TightCropRaise ==
  /\ bc_pc = "call"
  /\ bounding_crop_raises(bc_array, bc_value, Scalar(0))
  /\ bc_pc' = "tight_raised"
  /\ UNCHANGED <<bc_array, bc_value, bc_margin, bc_slices, bc_result, cropped,
                 padded, recropped>>
  /\ UNCHANGED <<pa_result, pa_raised>>
  /\ UNCHANGED <<asmVars, gfiVars, fitVars, ovVars, ufVars, bsVars, taVars>>

\* The round trip, step 1, returning.
TightCrop ==
  /\ bc_pc = "call"
  /\ ~ bounding_crop_raises(bc_array, bc_value, Scalar(0))
  /\ cropped' = bounding_crop(bc_array, bc_value, Scalar(0))
  /\ bc_pc' = "tight"
  /\ UNCHANGED <<bc_array, bc_value, bc_margin, bc_slices, bc_result, padded,
                 recropped>>
  /\ UNCHANGED <<pa_result, pa_raised>>
  /\ UNCHANGED <<asmVars, gfiVars, fitVars, ovVars, ufVars, bsVars, taVars>>

\* The round trip, step 2: padded = pad_array(cropped, bc_margin, bc_value),
\* raising.
PadCroppedRaise ==
  /\ bc_pc = "tight"
  /\ pad_array_raises(cropped, bc_margin, bc_value)
  /\ bc_pc' = "pad_raised"
  /\ UNCHANGED <<bc_array, bc_value, bc_margin, bc_slices, bc_result, cropped,
                 padded, recropped>>
  /\ UNCHANGED <<pa_result, pa_raised>>
  /\ UNCHANGED <<asmVars, gfiVars, fitVars, ovVars, ufVars, bsVars, taVars>>

\* The round trip, step 2, returning.
PadCropped ==
  /\ bc_pc = "tight"
  /\ ~ pad_array_raises(cropped, bc_margin, bc_value)
  /\ padded' = pad_array(cropped, bc_margin, bc_value)
  /\ bc_pc' = "padded"
  /\ UNCHANGED <<bc_array, bc_value, bc_margin, bc_slices, bc_result, cropped,
                 recropped>>
  /\ UNCHANGED <<pa_result, pa_raised>>
  /\ UNCHANGED <<asmVars, gfiVars, fitVars, ovVars, ufVars, bsVars, taVars>>

\* The round trip, step 3: recropped = bounding_crop(padded, bc_value,
\* margin=0), returning or raising.
Recrop ==
  /\ bc_pc = "padded"
  /\ IF bounding_crop_raises(padded, bc_value, Scalar(0))
     THEN /\ bc_pc' = "recrop_raised"
          /\ UNCHANGED recropped
     ELSE /\ recropped' = bounding_crop(padded, bc_value, Scalar(0))
          /\ bc_pc' = "recropped"
  /\ UNCHANGED <<bc_array, bc_value, bc_margin, bc_slices, bc_result, cropped,
                 padded>>
  /\ UNCHANGED <<pa_result, pa_raised>>
  /\ UNCHANGED <<asmVars, gfiVars, fitVars, ovVars, ufVars, bsVars, taVars>>

\* pad_array(bc_array, bc_margin, bc_value) raising.
PadArrayRaise ==
  /\ bc_pc = "call"
  /\ pad_array_raises(bc_array, bc_margin, bc_value)
  /\ pa_raised' = pad_array_error(bc_array, bc_margin, bc_value)
  /\ bc_pc' = "pad_array_raised"
  /\ UNCHANGED <<bc_array, bc_value, bc_margin, bc_slices, bc_result, cropped,
                 padded, recropped, pa_result>>
  /\ UNCHANGED <<asmVars, gfiVars, fitVars, ovVars, ufVars, bsVars, taVars>>

\* pad_array(bc_array, bc_margin, bc_value) returning.
PadArrayReturn ==
  /\ bc_pc = "call"
  /\ ~ pad_array_raises(bc_array, bc_margin, bc_value)
  /\ pa_result' = pad_array(bc_array, bc_margin, bc_value)
  /\ bc_pc' = "pad_array_returned"
  /\ UNCHANGED <<bc_array, bc_value, bc_margin, bc_slices, bc_result, cropped,
                 padded, recropped, pa_raised>>
  /\ UNCHANGED <<asmVars, gfiVars, fitVars, ovVars, ufVars, bsVars, taVars>>

CropNext ==
  \/ PadArrayRaise
  \/ PadArrayReturn
  \/ BoundingSlices
  \/ BoundingCropRaise
  \/ BoundingCropReturn
  \/ TightCropRaise
  \/ TightCrop
  \/ PadCroppedRaise
  \/ PadCropped
  \/ Recrop

----------------------------------------------------------------------------
(* Claims about bounding_slices. *)

SlicesReturned == bc_pc = "slices_returned"

\* The input of bounding_slices as the routine sees it: the extents of its
\* axes, and its nonzero positions, a rank-0 input being one element on one
\* axis.
InputExtents == IF bc_array.shape = <<>> THEN <<1>> ELSE bc_array.shape

NonzeroPositions ==
  IF bc_array.shape = <<>>
  THEN (IF bc_array.data[<<>>] # 0 THEN {<<0>>} ELSE {})
  ELSE {p \in DOMAIN bc_array.data : bc_array.data[p] # 0}

\* C7: bounding_slices returns one range per axis (one for a rank-0 input,
\* taken as a rank-1 array of one element); every nonzero element lies
\* inside the box; on every axis some nonzero element lies at the first and
\* some at the last index of the range, so that the range is [first,
\* last+1) and cannot be shrunk; and the range is [0, 0) on every axis when
\* no element is nonzero.
C7_TightBox ==
  SlicesReturned =>
    /\ Len(bc_slices) = Len(InputExtents)
    /\ \A p \in NonzeroPositions : \A d \in 1 .. Len(bc_slices) :
          bc_slices[d].start <= p[d] /\ p[d] < bc_slices[d].stop
    /\ NonzeroPositions # {} =>
         \A d \in 1 .. Len(bc_slices) :
            /\ \E p \in NonzeroPositions : p[d] = bc_slices[d].start
            /\ \E p \in NonzeroPositions : p[d] = bc_slices[d].stop - 1
    /\ NonzeroPositions = {} =>
         \A d \in 1 .. Len(bc_slices) :
            bc_slices[d].start = 0 /\ bc_slices[d].stop = 0

\* A rank-2 input whose box is smaller than the array on both axes.
C7_Witness ==
  /\ SlicesReturned
  /\ Len(bc_array.shape) = 2
  /\ NonzeroPositions # {}
  /\ \A d \in 1 .. 2 :
        /\ bc_slices[d].start > 0
        /\ bc_slices[d].stop = bc_array.shape[d]
        /\ \E p \in NonzeroPositions : p[d] = bc_slices[d].start

\* A rank-0 nonzero input: one range, [0, 1).
C7_WitnessRank0 ==
  /\ SlicesReturned
  /\ bc_array.shape = <<>>
  /\ bc_slices = <<[start |-> 0, stop |-> 1]>>

\* C8: bounding_slices returns for every input array (the call is never
\* stuck), every range it returns satisfies 0 <= lo <= hi <= extent of its
\* axis, and without a nonzero element, the input being all background or
\* of size zero, every range is empty.
C8_RangesWithinExtent ==
  /\ bc_pc = "call" => ENABLED BoundingSlices
  /\ SlicesReturned =>
       /\ \A d \in 1 .. Len(bc_slices) :
             /\ 0 <= bc_slices[d].start
             /\ bc_slices[d].start <= bc_slices[d].stop
             /\ bc_slices[d].stop <= InputExtents[d]
       /\ NonzeroPositions = {} =>
            \A d \in 1 .. Len(bc_slices) : bc_slices[d].start = bc_slices[d].stop

\* An input with an axis of extent 0 and one of extent 2: both ranges empty.
C8_Witness ==
  /\ SlicesReturned
  /\ bc_array.shape = <<0, 2>>
  /\ Len(bc_slices) = 2
  /\ \A d \in 1 .. 2 : bc_slices[d].start = bc_slices[d].stop

\* An all-background input of nonzero size: both ranges empty.
C8_WitnessBackground ==
  /\ SlicesReturned
  /\ bc_array.shape = <<2, 2>>
  /\ NonzeroPositions = {}
  /\ \A d \in 1 .. 2 : bc_slices[d].start = bc_slices[d].stop

----------------------------------------------------------------------------
(* Claims about bounding_crop. *)

\* The number of leading axes that are cropped: those not spanned by value.
SampleDim == Len(bc_array.shape) - bc_value.ndim

\* The margin is non-negative and is a scalar or one pair per cropped axis.
MarginFits ==
  IF bc_margin.ndim = 0 THEN bc_margin.v >= 0
  ELSE /\ Len(bc_margin.v) = SampleDim
       /\ \A r \in 1 .. Len(bc_margin.v) :
             bc_margin.v[r][1] >= 0 /\ bc_margin.v[r][2] >= 0

\* The array has an axis to crop and value spans its trailing axes.
ValueFits ==
  /\ SampleDim >= 1
  /\ ShapeOf(bc_value) =
       SubSeq(bc_array.shape, SampleDim + 1, Len(bc_array.shape))

\* The positions whose element differs from value in some trailing
\* component, projected on cropped axis a.
DiffersOn(a) ==
  {p[a] : p \in {q \in DOMAIN bc_array.data :
                   bc_array.data[q] # ValueAt(bc_value, q)}}

\* The bounding box B of these positions on cropped axis a.
BoxLo(a) == IF DiffersOn(a) = {} THEN 0 ELSE MinOf(DiffersOn(a))

BoxHi(a) == IF DiffersOn(a) = {} THEN 0 ELSE MaxOf(DiffersOn(a)) + 1

MarginBefore(a) ==
  IF bc_margin.ndim = 0 THEN bc_margin.v ELSE bc_margin.v[a][1]

MarginAfter(a) ==
  IF bc_margin.ndim = 0 THEN bc_margin.v ELSE bc_margin.v[a][2]

\* result is array[B] surrounded, on every cropped axis, by MarginBefore and
\* MarginAfter layers of value.
IsCropThenPad(result) ==
  LET ndim == Len(bc_array.shape)
      lo == [a \in 1 .. SampleDim |-> BoxLo(a)]
      hi == [a \in 1 .. SampleDim |-> BoxHi(a)]
      source(p) ==
        [a \in 1 .. ndim |->
           IF a <= SampleDim THEN p[a] - MarginBefore(a) + lo[a] ELSE p[a]]
  IN  /\ Len(result.shape) = ndim
      /\ \A a \in 1 .. ndim :
            result.shape[a] =
              IF a <= SampleDim
              THEN MarginBefore(a) + (hi[a] - lo[a]) + MarginAfter(a)
              ELSE bc_array.shape[a]
      /\ \A p \in DOMAIN result.data :
            result.data[p] =
              IF \A a \in 1 .. SampleDim :
                   lo[a] <= source(p)[a] /\ source(p)[a] < hi[a]
              THEN bc_array.data[source(p)]
              ELSE ValueAt(bc_value, p)

\* C9: bounding_crop(array, value, margin), called with a value that spans
\* the trailing axes of array and a margin that fits, returns array[B]
\* padded by margin with value, B being the bounding box of the positions
\* that differ from value in some trailing component; with margin 0 that is
\* array[B] itself.
C9_CropThenPad ==
  (ValueFits /\ MarginFits) =>
    /\ bc_pc # "crop_raised"
    /\ bc_pc = "crop_returned" => IsCropThenPad(bc_result)

\* A call with one margin pair per cropped axis, on an array that loses
\* its first index on some axis and gains a margin there.
C9_Witness ==
  /\ bc_pc = "crop_returned"
  /\ ValueFits
  /\ MarginFits
  /\ bc_margin.ndim = 2
  /\ \E a \in 1 .. SampleDim :
        BoxLo(a) > 0 /\ BoxLo(a) < BoxHi(a) /\ MarginBefore(a) + MarginAfter(a) > 0
  /\ IsCropThenPad(bc_result)

\* A call with margin 0 that returns the tight crop, smaller than the array.
C9_WitnessTight ==
  /\ bc_pc = "crop_returned"
  /\ ValueFits
  /\ bc_margin = Scalar(0)
  /\ bc_result.shape # bc_array.shape
  /\ DOMAIN bc_result.data # {}
  /\ IsCropThenPad(bc_result)

\* The array is entirely equal to the reference.
AllReference ==
  \A p \in DOMAIN bc_array.data : bc_array.data[p] = ValueAt(bc_value, p)

\* C10: for an array not entirely equal to the reference, once cropped =
\* bounding_crop(array, ref, margin=0) is returned, pad_array(cropped,
\* margin, ref) returns for every non-negative margin that fits, and
\* bounding_crop of the padded array, with margin 0, returns cropped.
C10_RoundTrip ==
  /\ (bc_pc = "pad_raised" /\ ValueFits) => ~ MarginFits
  /\ bc_pc # "recrop_raised"
  /\ (bc_pc = "recropped" /\ ~ AllReference) => recropped = cropped

\* A round trip in which the array is cropped, the margin is positive and
\* the reference is not zero.
C10_Witness ==
  /\ bc_pc = "recropped"
  /\ ~ AllReference
  /\ bc_value # Scalar(0)
  /\ cropped.shape # bc_array.shape
  /\ padded.shape # cropped.shape
  /\ recropped = cropped

\* Every pair of the margin is (0, 0).
MarginIsZero ==
  IF bc_margin.ndim = 0 THEN bc_margin.v = 0
  ELSE \A r \in 1 .. Len(bc_margin.v) :
          bc_margin.v[r][1] = 0 /\ bc_margin.v[r][2] = 0

C11_WitnessEmpty ==
  /\ bc_pc = "tight"
  /\ ValueFits
  /\ AllReference
  /\ DOMAIN bc_array.data # {}
  /\ DOMAIN cropped.data = {}

----------------------------------------------------------------------------
(* Claims about pad_array. *)

PadReturned == bc_pc = "pad_array_returned"

PadRaised == bc_pc = "pad_array_raised"

\* The number of leading axes the pad specification covers: its pairs, or,
\* for a scalar, the axes of the array that the value does not span.
CoveredAxes ==
  IF bc_margin.ndim = 0 THEN Len(bc_array.shape) - bc_value.ndim
  ELSE Len(bc_margin.v)

\* The value has the shape of the array along the axes not covered.
ValueAdmissible ==
  /\ 0 <= CoveredAxes
  /\ CoveredAxes <= Len(bc_array.shape)
  /\ ShapeOf(bc_value) =
       SubSeq(bc_array.shape, CoveredAxes + 1, Len(bc_array.shape))

C12_WitnessScalar ==
  /\ PadReturned
  /\ bc_margin = Scalar(0)
  /\ \E p \in DOMAIN bc_array.data : bc_array.data[p] # 0
  /\ pa_result = bc_array

PadBefore(a) ==
  IF a > CoveredAxes THEN 0
  ELSE IF bc_margin.ndim = 0 THEN bc_margin.v ELSE bc_margin.v[a][1]

PadAfter(a) ==
  IF a > CoveredAxes THEN 0
  ELSE IF bc_margin.ndim = 0 THEN bc_margin.v ELSE bc_margin.v[a][2]

\* Position q of the result lies where the input was placed.
InInput(q) ==
  \A a \in 1 .. Len(bc_array.shape) :
     PadBefore(a) <= q[a] /\ q[a] < PadBefore(a) + bc_array.shape[a]

\* value[t] for the trailing position t of q.
FillAt(q) ==
  IF bc_value.ndim = 0 THEN bc_value.v ELSE bc_value.v[q[Len(q)] + 1]

\* C13: the array pad_array returns has the extent before + extent + after
\* on every covered axis and the input's extent on every other axis; it
\* holds the input, unchanged, at offset before; and every other element,
\* corners included, is value[t] for its trailing position t.
C13_PadsLeadingAxes ==
  PadReturned =>
    /\ Len(pa_result.shape) = Len(bc_array.shape)
    /\ \A a \in 1 .. Len(bc_array.shape) :
          pa_result.shape[a] =
            IF a <= CoveredAxes
            THEN PadBefore(a) + bc_array.shape[a] + PadAfter(a)
            ELSE bc_array.shape[a]
    /\ DOMAIN pa_result.data = Box(pa_result.shape)
    /\ \A p \in DOMAIN bc_array.data :
          pa_result.data[[a \in 1 .. Len(p) |-> p[a] + PadBefore(a)]]
            = bc_array.data[p]
    /\ \A q \in DOMAIN pa_result.data :
          ~ InInput(q) => pa_result.data[q] = FillAt(q)

\* A rank-2 array padded on its first axis only, before, with a vector
\* value that differs from component to component.
C13_Witness ==
  /\ PadReturned
  /\ Len(bc_array.shape) = 2
  /\ CoveredAxes = 1
  /\ PadBefore(1) > 0
  /\ bc_value.ndim = 1
  /\ DOMAIN bc_array.data # {}
  /\ \E q \in DOMAIN pa_result.data : ~ InInput(q) /\ pa_result.data[q] = 1
  /\ \E q \in DOMAIN pa_result.data : ~ InInput(q) /\ pa_result.data[q] = 0

\* A rank-2 array padded on both axes: the result has corners.
C13_WitnessCorner ==
  /\ PadReturned
  /\ Len(bc_array.shape) = 2
  /\ CoveredAxes = 2
  /\ DOMAIN bc_array.data # {}
  /\ \E q \in DOMAIN pa_result.data :
        \A a \in 1 .. 2 :
           q[a] < PadBefore(a) \/ q[a] >= PadBefore(a) + bc_array.shape[a]

\* The shape of value is not the shape of the array along the axes that
\* the pad specification does not cover.
ValueMismatch ==
  IF CoveredAxes < 0 THEN TRUE
  ELSE ShapeOf(bc_value) #
         SubSeq(bc_array.shape, CoveredAxes + 1, Len(bc_array.shape))

\* C14: when the shape of value differs from array.shape[len(pad):],
\* pad_array raises and returns no array; the error is the AssertionError
\* of the shape comparison whenever len(pad) is defined.
C14_ShapeMismatchRaises ==
  ((PadReturned \/ PadRaised) /\ ValueMismatch) =>
    /\ PadRaised
    /\ pa_result = <<>>
    /\ CoveredAxes >= 0 => pa_raised = "AssertionError"

\* A vector value given for a pad that covers every axis of a rank-2
\* array: AssertionError.
C14_Witness ==
  /\ PadRaised
  /\ ValueMismatch
  /\ Len(bc_array.shape) = 2
  /\ CoveredAxes = 2
  /\ bc_value.ndim = 1
  /\ pa_raised = "AssertionError"

----------------------------------------------------------------------------
(* Claims about _fit_shape. *)

FitReturned == fs_pc = "returned"

FitRaised == fs_pc = "raised"

\* The wildcard entries of the shape given, and whether every other entry
\* is positive.
Wildcards == {k \in 1 .. Len(fs_shape) : fs_shape[k] = -1}

OthersPositive ==
  \A k \in (1 .. Len(fs_shape)) \ Wildcards : fs_shape[k] > 0

\* The product of the entries of shp other than entry w.
RECURSIVE ProdExcept(_, _)
ProdExcept(shp, w) ==
  IF shp = <<>> THEN 1
  ELSE (IF w = 1 THEN 1 ELSE Head(shp)) * ProdExcept(Tail(shp), w - 1)

\* C15: for n >= 1 and a shape with exactly one wildcard entry and every
\* other entry positive, _fit_shape does not raise, and the shape it
\* returns differs from the one given in the wildcard entry only, which is
\* the smallest value that makes the product of the shape at least n, that
\* is ceil(n / product of the other entries).
C15_WildcardResolved ==
  (fs_num >= 1 /\ Cardinality(Wildcards) = 1 /\ OthersPositive) =>
    /\ ~ FitRaised
    /\ FitReturned =>
         LET w == CHOOSE k \in Wildcards : TRUE
             others == ProdExcept(fs_shape, w)
         IN  /\ Len(fs_new_shape) = Len(fs_shape)
             /\ \A k \in 1 .. Len(fs_shape) :
                   k # w => fs_new_shape[k] = fs_shape[k]
             /\ fs_new_shape[w] * others >= fs_num
             /\ (fs_new_shape[w] - 1) * others < fs_num
             /\ Prod(fs_new_shape) >= fs_num

\* A wildcard resolved to a quotient that is rounded up.
C15_Witness ==
  /\ FitReturned
  /\ Cardinality(Wildcards) = 1
  /\ OthersPositive
  /\ Len(fs_shape) = 3
  /\ LET w == CHOOSE k \in Wildcards : TRUE
     IN  /\ ProdExcept(fs_shape, w) > 1
         /\ fs_num % ProdExcept(fs_shape, w) # 0
         /\ fs_new_shape[w] > 1
         /\ Prod(fs_new_shape) > fs_num

\* C16, for _fit_shape: for a shape with no wildcard entry and every entry
\* positive, _fit_shape raises if the product of the shape is less than n
\* and otherwise returns the shape unchanged.  For assemble_arrays: a grid
\* shape with no wildcard entry, every entry positive and fewer cells than
\* input arrays is rejected before the output array is allocated.
C16_FixedShape ==
  /\ (Wildcards = {} /\ OthersPositive) =>
       /\ FitRaised => Prod(fs_shape) < fs_num
       /\ FitReturned => Prod(fs_shape) >= fs_num /\ fs_new_shape = fs_shape
  /\ (pc \notin {"idle", "call"}
        /\ (\A k \in 1 .. Len(shape) : shape[k] > 0)
        /\ Prod(shape) < num) =>
       pc = "raised" /\ output_array = <<>>

\* assemble_arrays rejecting three arrays for a grid of two cells.
C16_Witness ==
  /\ pc = "raised"
  /\ \A k \in 1 .. Len(shape) : shape[k] > 0
  /\ Prod(shape) = 2
  /\ num = 3
  /\ \A k \in 1 .. num : arrays[k].dtype = arrays[1].dtype
  /\ output_array = <<>>

\* _fit_shape rejecting a shape one cell short, and returning a shape that
\* fits exactly.
C16_WitnessRaised ==
  /\ FitRaised
  /\ Wildcards = {}
  /\ OthersPositive
  /\ Len(fs_shape) = 2
  /\ Prod(fs_shape) = fs_num - 1

C16_WitnessExactFit ==
  /\ FitReturned
  /\ Wildcards = {}
  /\ Len(fs_shape) = 2
  /\ Prod(fs_shape) = fs_num
  /\ fs_new_shape = fs_shape

\* C17: _fit_shape raises, whatever n, when the shape has more than one
\* wildcard entry or an entry other than the wildcard that is zero or
\* negative.
C17_InvalidShapeRaises ==
  ((FitReturned \/ FitRaised)
     /\ (Cardinality(Wildcards) > 1 \/ ~ OthersPositive)) =>
    FitRaised /\ fs_new_shape = <<>>

\* Two wildcard entries and every other entry positive, with n = 1: raised.
C17_Witness ==
  /\ FitRaised
  /\ Cardinality(Wildcards) = 2
  /\ OthersPositive
  /\ Len(fs_shape) = 3
  /\ fs_num = 1

\* A zero entry beside one wildcard: raised.
C17_WitnessZero ==
  /\ FitRaised
  /\ Cardinality(Wildcards) = 1
  /\ \E k \in 1 .. Len(fs_shape) : fs_shape[k] = 0
  /\ \A k \in 1 .. Len(fs_shape) : fs_shape[k] >= -1

----------------------------------------------------------------------------
(* overlay_text *)

\* The largest height and width of an image, and of a rasterized text.
MaxImage == 3

MaxText == 2

\* tuple(map(int, PIL.__version__.split('.'))) < (8, 0), line 2140.
PillowTooOld(version) ==
  \/ version[1] < 8
  \/ version[1] = 8 /\ version[2] < 0

\* The assertions of lines 2137-2139.
overlay_assert_fails(image, yx, align_code) ==
  IF ~ (Len(image.shape) = 3 /\ image.dtype = "uint8") THEN TRUE
  ELSE IF Len(yx) # 2 THEN TRUE
  ELSE ~ (/\ Len(align_code) = 2
          /\ align_code[1] \in {"t", "m", "b"}
          /\ align_code[2] \in {"l", "c", "r"})

\* mid (line 2145).
mid(text_shape) == [c \in 1 .. 2 |-> text_shape[c] \div 2]

\* Mutant of top_left: a centered box is anchored at its first pixel.
top_left_middle_at_start(yx, text_shape, align_code) ==
  <<yx[1] + (IF align_code[1] = "b" THEN - text_shape[1] ELSE 0),
    yx[2] + (IF align_code[2] = "r" THEN - text_shape[2] ELSE 0)>>

\* top_left (lines 2146-2149).
top_left(yx, text_shape, align_code) ==
  <<yx[1] + (IF align_code[1] = "t" THEN 0
             ELSE IF align_code[1] = "m" THEN - mid(text_shape)[1]
             ELSE - text_shape[1]),
    yx[2] + (IF align_code[2] = "l" THEN 0
             ELSE IF align_code[2] = "c" THEN - mid(text_shape)[2]
             ELSE - text_shape[2])>>

\* slices (line 2150).
overlay_slices(yx, text_shape, align_code) ==
  LET tl == top_left(yx, text_shape, align_code)
  IN  [c \in 1 .. 2 |-> [start |-> tl[c], stop |-> tl[c] + text_shape[c]]]

\* Mutant of overlay_raises: only the start of the box is compared.
overlay_raises_stop_unchecked(image, yx, text_image, align_code) ==
  LET sl == overlay_slices(yx, SubSeq(text_image.shape, 1, 2), align_code)
  IN  IF \E c \in 1 .. 2 : ~ (0 <= sl[c].start /\ sl[c].start <= sl[c].stop)
        THEN TRUE
      ELSE ~ (/\ CanAssign(image, sl, text_image)
              /\ text_image.shape[3] \in {image.shape[3], 1})

\* Whether the call raises past the assertions and the version test: the
\* ValueError of lines 2151-2152, or the one numpy raises at line 2153 when
\* text_image does not broadcast to image[slices].
overlay_raises(image, yx, text_image, align_code) ==
  LET sl == overlay_slices(yx, SubSeq(text_image.shape, 1, 2), align_code)
  IN  IF \E c \in 1 .. 2 :
           ~ (/\ 0 <= sl[c].start
              /\ sl[c].start <= sl[c].stop
              /\ sl[c].stop <= image.shape[c])
        THEN TRUE
      ELSE ~ (/\ CanAssign(image, sl, text_image)
              /\ text_image.shape[3] \in {image.shape[3], 1})

\* image after image[slices] = text_image (line 2153).
overlay(image, yx, text_image, align_code) ==
  AssignSlices(image, overlay_slices(yx, SubSeq(text_image.shape, 1, 2), align_code),
               text_image)

\* The images the model draws from: every element is 250, in one channel or
\* three.
BlankImage(shp) ==
  [shape |-> shp, dtype |-> "uint8", data |-> [p \in Box(shp) |-> 250]]

Images ==
  {BlankImage(<<h, w, ch>>) : h \in 1 .. MaxImage, w \in 1 .. MaxImage, ch \in {1, 3}}

\* What rasterized_text returns: an RGB image of the text's box, here with
\* the elements 0, 1, ... in row-major order.
TextImages ==
  {[shape |-> <<h, w, 3>>, dtype |-> "uint8",
    data |-> [p \in Box(<<h, w, 3>>) |-> ravel_index(p, <<h, w, 3>>)]]
     : h \in 1 .. MaxText, w \in 1 .. MaxText}

Positions == (-1 .. MaxImage) \X (-1 .. MaxImage)

OverlayAligns ==
  ({"t", "m", "b"} \X {"l", "c", "r"}) \cup {<<"t", "x">>}

PillowVersions == {<<7, 2>>, <<8, 0>>}

OverlayIdle ==
  /\ ov_image = <<>>
  /\ ov_yx = <<>>
  /\ ov_text_image = <<>>
  /\ ov_align = <<>>
  /\ ov_pillow = <<>>
  /\ ov_pc = "idle"

OverlayStart ==
  /\ ov_image \in Images
  /\ ov_yx \in Positions
  /\ ov_text_image \in TextImages
  /\ ov_align \in OverlayAligns
  /\ ov_pillow \in PillowVersions
  /\ ov_pc = "call"

\* Lines 2137-2139: an assertion fails.
OverlayAssert ==
  /\ ov_pc = "call"
  /\ overlay_assert_fails(ov_image, ov_yx, ov_align)
  /\ ov_pc' = "raised"
  /\ UNCHANGED <<ov_image, ov_yx, ov_text_image, ov_align, ov_pillow>>
  /\ UNCHANGED <<asmVars, gfiVars, cropVars, fitVars, ufVars, bsVars, taVars>>

\* Lines 2140-2142: with Pillow before 8.0 the call warns and returns.
OverlaySkip ==
  /\ ov_pc = "call"
  /\ ~ overlay_assert_fails(ov_image, ov_yx, ov_align)
  /\ PillowTooOld(ov_pillow)
  /\ ov_pc' = "skipped"
  /\ UNCHANGED <<ov_image, ov_yx, ov_text_image, ov_align, ov_pillow>>
  /\ UNCHANGED <<asmVars, gfiVars, cropVars, fitVars, ufVars, bsVars, taVars>>

\* Lines 2143-2153 raising.
OverlayRaise ==
  /\ ov_pc = "call"
  /\ ~ overlay_assert_fails(ov_image, ov_yx, ov_align)
  /\ ~ PillowTooOld(ov_pillow)
  /\ overlay_raises(ov_image, ov_yx, ov_text_image, ov_align)
  /\ ov_pc' = "raised"
  /\ UNCHANGED <<ov_image, ov_yx, ov_text_image, ov_align, ov_pillow>>
  /\ UNCHANGED <<asmVars, gfiVars, cropVars, fitVars, ufVars, bsVars, taVars>>

\* Lines 2143-2153 completing: the text box is written into the image.
OverlayWrite ==
  /\ ov_pc = "call"
  /\ ~ overlay_assert_fails(ov_image, ov_yx, ov_align)
  /\ ~ PillowTooOld(ov_pillow)
  /\ ~ overlay_raises(ov_image, ov_yx, ov_text_image, ov_align)
  /\ ov_image' = overlay(ov_image, ov_yx, ov_text_image, ov_align)
  /\ ov_pc' = "returned"
  /\ UNCHANGED <<ov_yx, ov_text_image, ov_align, ov_pillow>>
  /\ UNCHANGED <<asmVars, gfiVars, cropVars, fitVars, ufVars, bsVars, taVars>>

OverlayNext ==
  \/ OverlayAssert
  \/ OverlaySkip
  \/ OverlayRaise
  \/ OverlayWrite

----------------------------------------------------------------------------
(* Claims about overlay_text. *)

OverlayDone == ov_pc \in {"raised", "skipped", "returned"}

\* The text box along axis c, [TextBoxLo, TextBoxHi): it starts at yx for the
\* codes 't' and 'l', ends at yx for 'b' and 'r', and has its middle pixel
\* (of index extent // 2) at yx for 'm' and 'c'.
TextBoxLo(c) ==
  LET code   == ov_align[c]
      extent == ov_text_image.shape[c]
  IN  CASE code \in {"t", "l"} -> ov_yx[c]
        [] code \in {"m", "c"} -> ov_yx[c] - extent \div 2
        [] OTHER               -> ov_yx[c] - extent

TextBoxHi(c) == TextBoxLo(c) + ov_text_image.shape[c]

TextBoxInside ==
  \A c \in 1 .. 2 : 0 <= TextBoxLo(c) /\ TextBoxHi(c) <= ov_image.shape[c]

InTextBox(p) == \A c \in 1 .. 2 : TextBoxLo(c) <= p[c] /\ p[c] < TextBoxHi(c)

ImageUnchanged == ov_image = BlankImage(ov_image.shape)

\* What a call that returned has written: nothing outside the text box, and
\* the text image inside it.
OnlyBoxWritten ==
  \A p \in DOMAIN ov_image.data :
     IF InTextBox(p)
       THEN ov_image.data[p]
              = ov_text_image.data[<<p[1] - TextBoxLo(1), p[2] - TextBoxLo(2), p[3]>>]
       ELSE ov_image.data[p] = 250

\* C21 as stated: whenever the text box does not lie inside the image, the
\* call of overlay_text fails with an error and the image is unchanged; when
\* the call succeeds, only the pixels inside the box are modified.
C21_BoundsValidatedAnyPillow ==
  /\ (OverlayDone /\ ~ TextBoxInside) => (ov_pc = "raised" /\ ImageUnchanged)
  /\ ov_pc = "returned" => (TextBoxInside /\ OnlyBoxWritten)

\* C21, amended: the same for calls made with Pillow 8.0 or later; with an
\* older Pillow the call returns without an error, whatever the placement,
\* and leaves the image unchanged.
C21_BoundsValidated ==
  /\ (OverlayDone /\ ~ TextBoxInside /\ ~ PillowTooOld(ov_pillow))
        => (ov_pc = "raised" /\ ImageUnchanged)
  /\ ov_pc = "skipped" => (PillowTooOld(ov_pillow) /\ ImageUnchanged)
  /\ ov_pc = "returned" => (TextBoxInside /\ OnlyBoxWritten)

\* A call raised for a box that starts inside the image and ends beyond it.
C21_Witness ==
  /\ ov_pc = "raised"
  /\ ~ PillowTooOld(ov_pillow)
  /\ ~ overlay_assert_fails(ov_image, ov_yx, ov_align)
  /\ \E c \in 1 .. 2 :
        0 <= TextBoxLo(c) /\ TextBoxLo(c) < ov_image.shape[c]
          /\ TextBoxHi(c) > ov_image.shape[c]
  /\ ImageUnchanged

\* A call returned after writing a centered box smaller than the image.
C21_WitnessWritten ==
  /\ ov_pc = "returned"
  /\ ov_align = <<"m", "c">>
  /\ ov_text_image.shape = <<2, 2, 3>>
  /\ ov_image.shape = <<3, 3, 3>>
  /\ \E p \in DOMAIN ov_image.data : InTextBox(p) /\ ov_image.data[p] # 250
  /\ \E p \in DOMAIN ov_image.data : ~ InTextBox(p)

----------------------------------------------------------------------------
(* UnionFind *)

\* The elements the methods are called with.
Elements == {"a", "b", "c"}

\* The largest number of distinct pairs passed to union.
MaxUnions == 3

\* The largest number of iterations of the loop of find that are followed.
MaxLoop == 4

\* A dictionary is a function on the set of its keys.
EmptyDict == [x \in {} |-> x]

\* d after d[k] = v.
SetItem(d, k, v) ==
  [x \in (DOMAIN d) \cup {k} |-> IF x = k THEN v ELSE d[x]]

\* d after d.setdefault(k, v), and what the call returns.
SetDefault(d, k, v) == IF k \in DOMAIN d THEN d ELSE SetItem(d, k, v)

GetDefault(d, k, v) == IF k \in DOMAIN d THEN d[k] ELSE v

\* d after "for p in parents: d[p] = a" (lines 2233-2234).
RECURSIVE Compress(_, _, _)
Compress(d, parents, a) ==
  IF parents = <<>> THEN d
  ELSE Compress(SetItem(d, Head(parents), a), Tail(parents), a)

\* Mutant of union_assign: the argument b, not its representative, is linked
\* to the representative of a.
union_assign_arg_b(rep, a, b, rep_a, rep_b) == SetItem(rep, b, rep_a)

\* Mutant of union_assign: the representative of a is linked to that of b.
union_assign_into_b(rep, a, b, rep_a, rep_b) == SetItem(rep, rep_a, rep_b)

\* Mutant of union_assign: b is linked to a, neither being resolved.
union_assign_args(rep, a, b, rep_a, rep_b) == SetItem(rep, b, a)

\* self._rep after self._rep[rep_b] = rep_a (line 2198).
union_assign(rep, a, b, rep_a, rep_b) == SetItem(rep, rep_b, rep_a)

NoCall == [name |-> "none", args |-> <<>>]

UnionFindIdle ==
  /\ uf_rep = EmptyDict
  /\ uf_unions = {}
  /\ uf_op = NoCall
  /\ uf_ret = NoCall
  /\ uf_a = ""
  /\ uf_parents = <<>>
  /\ uf_found = <<>>
  /\ uf_pc = "idle"

\* Line 2188: the object is constructed.
UnionFindStart ==
  /\ uf_rep = EmptyDict
  /\ uf_unions = {}
  /\ uf_op = NoCall
  /\ uf_ret = NoCall
  /\ uf_a = ""
  /\ uf_parents = <<>>
  /\ uf_found = <<>>
  /\ uf_pc = "ready"

\* find(a) is called.
CallFind ==
  /\ uf_pc = "ready"
  /\ \E a \in Elements :
        /\ uf_op' = [name |-> "find", args |-> <<a>>]
        /\ uf_a' = a
  /\ uf_parents' = <<>>
  /\ uf_found' = <<>>
  /\ uf_pc' = "enter"
  /\ uf_ret' = NoCall
  /\ UNCHANGED <<uf_rep, uf_unions>>
  /\ UNCHANGED <<asmVars, gfiVars, cropVars, fitVars, ovVars, bsVars, taVars>>

\* same(a, b) is called, and calls find(a) (line 2209).
CallSame ==
  /\ uf_pc = "ready"
  /\ \E a \in Elements, b \in Elements :
        /\ uf_op' = [name |-> "same", args |-> <<a, b>>]
        /\ uf_a' = a
  /\ uf_parents' = <<>>
  /\ uf_found' = <<>>
  /\ uf_pc' = "enter"
  /\ uf_ret' = NoCall
  /\ UNCHANGED <<uf_rep, uf_unions>>
  /\ UNCHANGED <<asmVars, gfiVars, cropVars, fitVars, ovVars, bsVars, taVars>>

\* union(a, b) is called, and calls find(a) (line 2197).
CallUnion ==
  /\ uf_pc = "ready"
  /\ \E a \in Elements, b \in Elements :
        /\ Cardinality(uf_unions \cup {<<a, b>>}) <= MaxUnions
        /\ uf_op' = [name |-> "union", args |-> <<a, b>>]
        /\ uf_a' = a
  /\ uf_parents' = <<>>
  /\ uf_found' = <<>>
  /\ uf_pc' = "enter"
  /\ uf_ret' = NoCall
  /\ UNCHANGED <<uf_rep, uf_unions>>
  /\ UNCHANGED <<asmVars, gfiVars, cropVars, fitVars, ovVars, bsVars, taVars>>

\* find, lines 2224-2226: an element that is no key is returned as it is.
FindEnter ==
  /\ uf_pc = "enter"
  /\ IF uf_a \notin DOMAIN uf_rep
       THEN /\ uf_found' = Append(uf_found, uf_a)
            /\ uf_pc' = "found"
            /\ UNCHANGED uf_parents
       ELSE /\ uf_parents' = <<>>
            /\ uf_pc' = "loop"
            /\ UNCHANGED uf_found
  /\ UNCHANGED <<uf_rep, uf_unions, uf_op, uf_ret, uf_a>>
  /\ UNCHANGED <<asmVars, gfiVars, cropVars, fitVars, ovVars, bsVars, taVars>>

\* find, lines 2227-2232: one iteration of the loop.
FindLoop ==
  /\ uf_pc = "loop"
  /\ Len(uf_parents) < MaxLoop
  /\ LET parent == GetDefault(uf_rep, uf_a, uf_a)
     IN  /\ uf_rep' = SetDefault(uf_rep, uf_a, uf_a)
         /\ IF parent = uf_a
              THEN /\ uf_pc' = "compress"
                   /\ UNCHANGED <<uf_a, uf_parents>>
              ELSE /\ uf_parents' = Append(uf_parents, uf_a)
                   /\ uf_a' = parent
                   /\ UNCHANGED uf_pc
  /\ UNCHANGED <<uf_unions, uf_op, uf_ret, uf_found>>
  /\ UNCHANGED <<asmVars, gfiVars, cropVars, fitVars, ovVars, bsVars, taVars>>

\* find, lines 2233-2235: the elements passed are linked to the
\* representative, which is returned.
FindCompress ==
  /\ uf_pc = "compress"
  /\ uf_rep' = Compress(uf_rep, uf_parents, uf_a)
  /\ uf_found' = Append(uf_found, uf_a)
  /\ uf_pc' = "found"
  /\ UNCHANGED <<uf_unions, uf_op, uf_ret, uf_a, uf_parents>>
  /\ UNCHANGED <<asmVars, gfiVars, cropVars, fitVars, ovVars, bsVars, taVars>>

\* same and union call find(b) (lines 2197, 2209).
FindSecond ==
  /\ uf_pc = "found"
  /\ uf_op.name \in {"same", "union"}
  /\ Len(uf_found) = 1
  /\ uf_a' = uf_op.args[2]
  /\ uf_parents' = <<>>
  /\ uf_pc' = "enter"
  /\ UNCHANGED <<uf_rep, uf_unions, uf_op, uf_ret, uf_found>>
  /\ UNCHANGED <<asmVars, gfiVars, cropVars, fitVars, ovVars, bsVars, taVars>>

\* find called on its own returns.
FindReturn ==
  /\ uf_pc = "found"
  /\ uf_op.name = "find"
  /\ uf_ret' = [name |-> "find", args |-> uf_op.args, result |-> uf_found[1]]
  /\ uf_op' = NoCall
  /\ uf_a' = ""
  /\ uf_parents' = <<>>
  /\ uf_found' = <<>>
  /\ uf_pc' = "ready"
  /\ UNCHANGED <<uf_rep, uf_unions>>
  /\ UNCHANGED <<asmVars, gfiVars, cropVars, fitVars, ovVars, bsVars, taVars>>

\* same returns (lines 2209-2210).
SameReturn ==
  /\ uf_pc = "found"
  /\ uf_op.name = "same"
  /\ Len(uf_found) = 2
  /\ uf_ret' = [name |-> "same", args |-> uf_op.args,
                result |-> (uf_found[1] = uf_found[2])]
  /\ uf_op' = NoCall
  /\ uf_a' = ""
  /\ uf_parents' = <<>>
  /\ uf_found' = <<>>
  /\ uf_pc' = "ready"
  /\ UNCHANGED <<uf_rep, uf_unions>>
  /\ UNCHANGED <<asmVars, gfiVars, cropVars, fitVars, ovVars, bsVars, taVars>>

\* union links the two representatives and returns (lines 2197-2198).
UnionReturn ==
  /\ uf_pc = "found"
  /\ uf_op.name = "union"
  /\ Len(uf_found) = 2
  /\ uf_rep' = union_assign(uf_rep, uf_op.args[1], uf_op.args[2],
                            uf_found[1], uf_found[2])
  /\ uf_unions' = uf_unions \cup {uf_op.args}
  /\ uf_ret' = [name |-> "union", args |-> uf_op.args, result |-> "None"]
  /\ uf_op' = NoCall
  /\ uf_a' = ""
  /\ uf_parents' = <<>>
  /\ uf_found' = <<>>
  /\ uf_pc' = "ready"
  /\ UNCHANGED <<asmVars, gfiVars, cropVars, fitVars, ovVars, bsVars, taVars>>

\* The steps of a method that was called.
UnionFindStep ==
  \/ FindEnter
  \/ FindLoop
  \/ FindCompress
  \/ FindSecond
  \/ FindReturn
  \/ SameReturn
  \/ UnionReturn

UnionFindNext ==
  \/ CallFind
  \/ CallSame
  \/ CallUnion
  \/ UnionFindStep

----------------------------------------------------------------------------
(* Claims about UnionFind. *)

\* What find(x) returns on the dictionary rep: x when x is no key, else the
\* first element on the way from x whose parent (itself, for one that is no
\* key) is itself.  At most n links are followed.
RECURSIVE FindIn(_, _, _)
FindIn(rep, x, n) ==
  IF n = 0 \/ x \notin DOMAIN rep \/ rep[x] = x THEN x
  ELSE FindIn(rep, rep[x], n - 1)

Find(rep, x) == FindIn(rep, x, Cardinality(Elements))

\* The reflexive, symmetric and transitive closure of a set of pairs.
RECURSIVE TransitiveClosure(_)
TransitiveClosure(R) ==
  LET more == R \cup {<<t[1][1], t[2][2]>> : t \in {u \in R \X R : u[1][2] = u[2][1]}}
  IN  IF more = R THEN R ELSE TransitiveClosure(more)

Equivalence(pairs) ==
  TransitiveClosure(pairs \cup {<<p[2], p[1]>> : p \in pairs}
                          \cup {<<x, x>> : x \in Elements})

\* C23: a call of same(a, b) returns TRUE exactly when <<a, b>> is in the
\* reflexive, symmetric and transitive closure of the pairs passed to union
\* so far; and at every moment, whatever calls of find and same were made,
\* the answer same would give for any two elements is that one (so an
\* element never passed to union is equivalent to itself only).
C23_SameIsClosure ==
  LET related == Equivalence(uf_unions)
  IN  /\ (uf_pc = "ready" /\ uf_ret.name = "same")
            => (uf_ret.result <=> (uf_ret.args \in related))
      /\ \A a \in Elements, b \in Elements :
            (Find(uf_rep, a) = Find(uf_rep, b)) <=> (<<a, b>> \in related)

\* same returned TRUE for two elements that were never passed to union
\* together, after the path of one of them was compressed.
C23_Witness ==
  /\ uf_pc = "ready"
  /\ uf_ret.name = "same"
  /\ uf_ret.result
  /\ uf_ret.args[1] # uf_ret.args[2]
  /\ uf_ret.args \notin uf_unions
  /\ <<uf_ret.args[2], uf_ret.args[1]>> \notin uf_unions
  /\ \A x \in Elements : x \in DOMAIN uf_rep /\ uf_rep[x] = Find(uf_rep, x)

\* same returned FALSE for an element that was passed to union and one that
\* never was.
C23_WitnessFalse ==
  /\ uf_pc = "ready"
  /\ uf_ret.name = "same"
  /\ ~ uf_ret.result
  /\ \E p \in uf_unions : uf_ret.args[1] \in {p[1], p[2]} /\ p[1] # p[2]
  /\ \A p \in uf_unions : uf_ret.args[2] \notin {p[1], p[2]}

\* The class of x: the elements with the representative of x.
ClassOf(rep, x) == {y \in Elements : Find(rep, y) = Find(rep, x)}

\* union(a, b) returns.
UnionReturns == uf_pc = "found" /\ uf_op.name = "union" /\ uf_pc' = "ready"

\* C24: when union(a, b) returns, find(x) gives, for every x of the former
\* class of a or of b, the representative that find(a) returned just before,
\* and for every other x the representative it gave before.
C24_UnionMergesIntoA ==
  [][UnionReturns =>
       LET a == uf_op.args[1]
           b == uf_op.args[2]
       IN  /\ uf_found[1] = Find(uf_rep, a)
           /\ \A x \in Elements :
                 IF x \in ClassOf(uf_rep, a) \cup ClassOf(uf_rep, b)
                   THEN Find(uf_rep', x) = uf_found[1]
                   ELSE Find(uf_rep', x) = Find(uf_rep, x)]_vars

\* union(a, b) returned after merging two classes of distinct
\* representatives, b not being the representative of its class, while a
\* third class was left alone.
C24_Witness ==
  /\ uf_pc = "ready"
  /\ uf_ret.name = "union"
  /\ Cardinality(uf_unions) = 2
  /\ Find(uf_rep, uf_ret.args[2]) = Find(uf_rep, uf_ret.args[1])
  /\ uf_ret.args[2] \in DOMAIN uf_rep
  /\ uf_rep[uf_ret.args[2]] # uf_ret.args[2]
  /\ Cardinality(ClassOf(uf_rep, uf_ret.args[1])) = 3

\* The elements reached from x by following n parents or fewer.
RECURSIVE Ancestors(_, _, _)
Ancestors(rep, x, n) ==
  IF n = 0 \/ x \notin DOMAIN rep THEN {x}
  ELSE {x} \cup Ancestors(rep, rep[x], n - 1)

\* The parent map has no cycle other than the self-loops: following the
\* parents from any element leads to an element that is no key or is its own
\* parent.
NoProperCycle ==
  \A x \in Elements :
     \E r \in Ancestors(uf_rep, x, Cardinality(Elements)) :
        r \notin DOMAIN uf_rep \/ uf_rep[r] = r

\* What find returned is its own representative.
FindReturnedRepresentative ==
  (uf_pc = "ready" /\ uf_ret.name = "find")
     => (uf_ret.result \notin DOMAIN uf_rep \/ uf_rep[uf_ret.result] = uf_ret.result)

InFind == uf_pc \in {"enter", "loop", "compress"}

\* C30: the parent map never has a cycle other than the self-loops of the
\* representatives, every call of find returns, and what find returns is
\* its own representative.
C30_FindTerminates ==
  /\ [](NoProperCycle /\ FindReturnedRepresentative)
  /\ InFind ~> (uf_pc = "found")
  /\ (uf_pc # "ready") ~> (uf_pc = "ready")

\* find returned after following two parents and linking both elements
\* passed to the representative.
C30_Witness ==
  /\ uf_pc = "found"
  /\ uf_op.name = "find"
  /\ Len(uf_parents) = 2
  /\ \A k \in 1 .. 2 : uf_rep[uf_parents[k]] = uf_a
  /\ uf_rep[uf_a] = uf_a

----------------------------------------------------------------------------
(* discrete_binary_search *)

\* feval is evaluated on -1 .. MaxAbscissa and has values in 0 .. MaxOrdinate.
MaxAbscissa == 2

MaxOrdinate == 2

Abscissas == -1 .. MaxAbscissa

Ordinates == 0 .. MaxOrdinate

\* Mutant of search_step: xl moves to xm only when y_desired > ym.
search_step_strict(feval, xl, xh, y_desired) ==
  LET xm == (xl + xh) \div 2
      ym == feval[xm]
  IN  IF y_desired > ym THEN <<xm, xh>> ELSE <<xl, xm>>

\* One iteration of the loop (lines 2329-2334): the new xl and xh.
search_step(feval, xl, xh, y_desired) ==
  LET xm == (xl + xh) \div 2
      ym == feval[xm]
  IN  IF y_desired >= ym THEN <<xm, xh>> ELSE <<xl, xm>>

SearchIdle ==
  /\ bs_feval = <<>>
  /\ bs_lo = 0
  /\ bs_hi = 0
  /\ bs_xl = 0
  /\ bs_xh = 0
  /\ bs_y_desired = 0
  /\ bs_ret = <<>>
  /\ bs_pc = "idle"

SearchStart ==
  /\ bs_feval \in [Abscissas -> Ordinates]
  /\ bs_lo \in Abscissas
  /\ bs_hi \in Abscissas
  /\ bs_xl = bs_lo
  /\ bs_xh = bs_hi
  /\ bs_y_desired \in Ordinates
  /\ bs_ret = <<>>
  /\ bs_pc = "call"

\* Line 2327: the assertion fails.
SearchAssert ==
  /\ bs_pc = "call"
  /\ ~ (bs_xl < bs_xh)
  /\ bs_pc' = "raised"
  /\ UNCHANGED <<bs_feval, bs_lo, bs_hi, bs_xl, bs_xh, bs_y_desired, bs_ret>>
  /\ UNCHANGED <<asmVars, gfiVars, cropVars, fitVars, ovVars, ufVars, taVars>>

\* Line 2327: the assertion holds.
SearchEnter ==
  /\ bs_pc = "call"
  /\ bs_xl < bs_xh
  /\ bs_pc' = "loop"
  /\ UNCHANGED <<bs_feval, bs_lo, bs_hi, bs_xl, bs_xh, bs_y_desired, bs_ret>>
  /\ UNCHANGED <<asmVars, gfiVars, cropVars, fitVars, ovVars, ufVars, taVars>>

\* Lines 2328-2334: one iteration of the loop.
SearchLoop ==
  /\ bs_pc = "loop"
  /\ bs_xh - bs_xl > 1
  /\ LET next == search_step(bs_feval, bs_xl, bs_xh, bs_y_desired)
     IN  /\ bs_xl' = next[1]
         /\ bs_xh' = next[2]
  /\ UNCHANGED <<bs_feval, bs_lo, bs_hi, bs_y_desired, bs_ret, bs_pc>>
  /\ UNCHANGED <<asmVars, gfiVars, cropVars, fitVars, ovVars, ufVars, taVars>>

\* Lines 2328 and 2335: the loop ends and xl is returned.
SearchReturn ==
  /\ bs_pc = "loop"
  /\ ~ (bs_xh - bs_xl > 1)
  /\ bs_ret' = <<bs_xl>>
  /\ bs_pc' = "returned"
  /\ UNCHANGED <<bs_feval, bs_lo, bs_hi, bs_xl, bs_xh, bs_y_desired>>
  /\ UNCHANGED <<asmVars, gfiVars, cropVars, fitVars, ovVars, ufVars, taVars>>

SearchNext ==
  \/ SearchAssert
  \/ SearchEnter
  \/ SearchLoop
  \/ SearchReturn

----------------------------------------------------------------------------
(* Claims about discrete_binary_search. *)

\* What the caller must provide: xl < xh and feval(xl) <= y_desired < feval(xh).
SearchRequires ==
  /\ bs_lo < bs_hi
  /\ bs_feval[bs_lo] <= bs_y_desired
  /\ bs_y_desired < bs_feval[bs_hi]

SearchEnsures ==
  LET x == bs_ret[1]
  IN  /\ bs_lo <= x
      /\ x < bs_hi
      /\ bs_feval[x] <= bs_y_desired
      /\ bs_y_desired < bs_feval[x + 1]

\* C26: a call of discrete_binary_search with xl < xh and
\* feval(xl) <= y_desired < feval(xh), feval being any function, returns,
\* and the x it returns has xl <= x < xh and
\* feval(x) <= y_desired < feval(x + 1).
C26_SearchReturnsStep ==
  /\ []((bs_pc = "returned" /\ SearchRequires) => SearchEnsures)
  /\ (bs_pc = "call" /\ SearchRequires) ~> (bs_pc = "returned")

\* A call returned after two iterations, for a feval that is not monotone,
\* an x that is neither xl nor xh - 1 as called, xl being negative.
C26_Witness ==
  /\ bs_pc = "returned"
  /\ SearchRequires
  /\ bs_lo < 0
  /\ bs_hi - bs_lo > 2
  /\ bs_ret # <<bs_lo>>
  /\ \E x \in Abscissas : x + 1 \in Abscissas /\ bs_feval[x] > bs_feval[x + 1]
  /\ SearchEnsures

----------------------------------------------------------------------------
(* temporary_assignment *)

\* The largest number of statements of the body that change the dictionary.
MaxBodySteps == 2

Names == {"var", "var2"}

Values == {"1", "2"}

\* The sentinel _UNDEFINED (line 58), which is none of the values.
Undefined == "_UNDEFINED"

\* d after del d[k], for a key k of d.
DelItem(d, k) == [x \in (DOMAIN d) \ {k} |-> d[x]]

\* Mutant of restore: the old value is assigned back even when it is the
\* sentinel.
restore_by_assignment(variables, name, old_value) ==
  SetItem(variables, name, old_value)

\* variables after the finally clause (lines 737-741), when it does not
\* raise.
restore(variables, name, old_value) ==
  IF old_value = Undefined THEN DelItem(variables, name)
  ELSE SetItem(variables, name, old_value)

\* Whether the finally clause raises: del of a key that is not there.
restore_raises(variables, name, old_value) ==
  old_value = Undefined /\ name \notin DOMAIN variables

Dicts == UNION {[S -> Values] : S \in SUBSET Names}

AssignmentIdle ==
  /\ ta_variables = EmptyDict
  /\ ta_name = ""
  /\ ta_value = ""
  /\ ta_before = EmptyDict
  /\ ta_old_value = Undefined
  /\ ta_steps = 0
  /\ ta_body = "none"
  /\ ta_pc = "idle"

\* The with statement is reached.
AssignmentStart ==
  /\ ta_variables \in Dicts
  /\ ta_name \in Names
  /\ ta_value \in Values
  /\ ta_before = ta_variables
  /\ ta_old_value = Undefined
  /\ ta_steps = 0
  /\ ta_body = "none"
  /\ ta_pc = "call"

\* Lines 733-736: the context is entered.
AssignmentEnter ==
  /\ ta_pc = "call"
  /\ ta_old_value' = GetDefault(ta_variables, ta_name, Undefined)
  /\ ta_variables' = SetItem(ta_variables, ta_name, ta_value)
  /\ ta_pc' = "inside"
  /\ UNCHANGED <<ta_name, ta_value, ta_before, ta_steps, ta_body>>
  /\ UNCHANGED <<asmVars, gfiVars, cropVars, fitVars, ovVars, ufVars, bsVars>>

\* A statement of the body assigns to a key of the dictionary.
BodyAssign ==
  /\ ta_pc = "inside"
  /\ ta_steps < MaxBodySteps
  /\ \E k \in Names, v \in Values : ta_variables' = SetItem(ta_variables, k, v)
  /\ ta_steps' = ta_steps + 1
  /\ UNCHANGED <<ta_name, ta_value, ta_before, ta_old_value, ta_body, ta_pc>>
  /\ UNCHANGED <<asmVars, gfiVars, cropVars, fitVars, ovVars, ufVars, bsVars>>

\* A statement of the body deletes a key of the dictionary.
BodyDelete ==
  /\ ta_pc = "inside"
  /\ ta_steps < MaxBodySteps
  /\ \E k \in DOMAIN ta_variables : ta_variables' = DelItem(ta_variables, k)
  /\ ta_steps' = ta_steps + 1
  /\ UNCHANGED <<ta_name, ta_value, ta_before, ta_old_value, ta_body, ta_pc>>
  /\ UNCHANGED <<asmVars, gfiVars, cropVars, fitVars, ovVars, ufVars, bsVars>>

\* Lines 736-741: the body completes or raises, and the finally clause
\* restores the dictionary; an exception of the body goes on to the caller.
AssignmentExit ==
  /\ ta_pc = "inside"
  /\ ~ restore_raises(ta_variables, ta_name, ta_old_value)
  /\ \E ending \in {"completed", "raised"} :
        /\ ta_body' = ending
        /\ ta_pc' = IF ending = "completed" THEN "exited" ELSE "raised"
  /\ ta_variables' = restore(ta_variables, ta_name, ta_old_value)
  /\ UNCHANGED <<ta_name, ta_value, ta_before, ta_old_value, ta_steps>>
  /\ UNCHANGED <<asmVars, gfiVars, cropVars, fitVars, ovVars, ufVars, bsVars>>

\* Lines 736-739: the body completes or raises after deleting the name, which
\* was absent at the call, and the del of the finally clause raises KeyError.
AssignmentExitRaise ==
  /\ ta_pc = "inside"
  /\ restore_raises(ta_variables, ta_name, ta_old_value)
  /\ \E ending \in {"completed", "raised"} : ta_body' = ending
  /\ ta_pc' = "raised"
  /\ UNCHANGED <<ta_variables, ta_name, ta_value, ta_before, ta_old_value, ta_steps>>
  /\ UNCHANGED <<asmVars, gfiVars, cropVars, fitVars, ovVars, ufVars, bsVars>>

AssignmentNext ==
  \/ AssignmentEnter
  \/ BodyAssign
  \/ BodyDelete
  \/ AssignmentExit
  \/ AssignmentExitRaise

----------------------------------------------------------------------------
(* Claims about temporary_assignment. *)

AssignmentExited == ta_pc \in {"exited", "raised"}

\* Dictionaries d and e have the same keys other than name, with the same
\* values.
SameOtherKeys(d, e, name) ==
  /\ (DOMAIN d) \ {name} = (DOMAIN e) \ {name}
  /\ \A k \in (DOMAIN d) \ {name} : d[k] = e[k]

\* The with statement is entered or left in this step.
EntersOrLeaves == ta_pc # ta_pc'

\* C25: when the body of the with statement starts, variables[name] is
\* value; once the context is left, the body having completed or raised,
\* variables[name] is the value it had at the call, or name is no key if it
\* was none at the call; and entering and leaving the context change no
\* other key.
C25_TemporaryAssignment ==
  /\ []((ta_pc = "inside" /\ ta_steps = 0)
          => (ta_name \in DOMAIN ta_variables /\ ta_variables[ta_name] = ta_value))
  /\ [](AssignmentExited =>
          IF ta_name \in DOMAIN ta_before
            THEN /\ ta_name \in DOMAIN ta_variables
                 /\ ta_variables[ta_name] = ta_before[ta_name]
            ELSE ta_name \notin DOMAIN ta_variables)
  /\ [][EntersOrLeaves => SameOtherKeys(ta_variables, ta_variables', ta_name)]_vars

\* The context was left by an exception of the body, after the body had
\* assigned another value to the name and changed another key; the name,
\* absent at the call, is absent again.
C25_Witness ==
  /\ ta_pc = "raised"
  /\ ta_body = "raised"
  /\ ta_steps = 2
  /\ ta_name \notin DOMAIN ta_before
  /\ ta_name \notin DOMAIN ta_variables
  /\ ~ SameOtherKeys(ta_variables, ta_before, ta_name)

\* The context was left normally and the name has the value of the call
\* again, which is not the one assigned for the context.
C25_WitnessRestored ==
  /\ ta_pc = "exited"
  /\ ta_name \in DOMAIN ta_before
  /\ ta_before[ta_name] # ta_value
  /\ ta_variables[ta_name] = ta_before[ta_name]

----------------------------------------------------------------------------
(* Specifications: one routine is called, the others are idle. *)

AssembleInit ==
  /\ AssembleStart
  /\ GridIdle
  /\ CropIdle
  /\ FitIdle
  /\ OverlayIdle
  /\ UnionFindIdle
  /\ SearchIdle
  /\ AssignmentIdle

SpecAssemble == AssembleInit /\ [][AssembleNext]_vars

GridInit ==
  /\ GridStart
  /\ AssembleIdle
  /\ CropIdle
  /\ FitIdle
  /\ OverlayIdle
  /\ UnionFindIdle
  /\ SearchIdle
  /\ AssignmentIdle

SpecGrid == GridInit /\ [][GridNext]_vars

CropInit ==
  /\ CropStart
  /\ AssembleIdle
  /\ GridIdle
  /\ FitIdle
  /\ OverlayIdle
  /\ UnionFindIdle
  /\ SearchIdle
  /\ AssignmentIdle

SpecCrop == CropInit /\ [][CropNext]_vars

FitInit ==
  /\ FitStart
  /\ AssembleIdle
  /\ GridIdle
  /\ CropIdle
  /\ OverlayIdle
  /\ UnionFindIdle
  /\ SearchIdle
  /\ AssignmentIdle

SpecFit == FitInit /\ [][FitNext]_vars

\* _fit_shape is called, either directly or by assemble_arrays (line 1883).
ResolveInit ==
  \/ FitInit
  \/ AssembleInit

ResolveNext == FitNext \/ AssembleNext

SpecResolve == ResolveInit /\ [][ResolveNext]_vars

OverlayInit ==
  /\ OverlayStart
  /\ AssembleIdle
  /\ GridIdle
  /\ CropIdle
  /\ FitIdle
  /\ UnionFindIdle
  /\ SearchIdle
  /\ AssignmentIdle

SpecOverlay == OverlayInit /\ [][OverlayNext]_vars

UnionFindInit ==
  /\ UnionFindStart
  /\ AssembleIdle
  /\ GridIdle
  /\ CropIdle
  /\ FitIdle
  /\ OverlayIdle
  /\ SearchIdle
  /\ AssignmentIdle

SpecUnionFind == UnionFindInit /\ [][UnionFindNext]_vars

\* A method that was called keeps running until it returns.
SpecUnionFindLive ==
  UnionFindInit /\ [][UnionFindNext]_vars /\ WF_vars(UnionFindStep)

SearchInit ==
  /\ SearchStart
  /\ AssembleIdle
  /\ GridIdle
  /\ CropIdle
  /\ FitIdle
  /\ OverlayIdle
  /\ UnionFindIdle
  /\ AssignmentIdle

SpecSearch == SearchInit /\ [][SearchNext]_vars

\* The call keeps running until it returns or raises.
SpecSearchLive == SearchInit /\ [][SearchNext]_vars /\ WF_vars(SearchNext)

AssignmentInit ==
  /\ AssignmentStart
  /\ AssembleIdle
  /\ GridIdle
  /\ CropIdle
  /\ FitIdle
  /\ OverlayIdle
  /\ UnionFindIdle
  /\ SearchIdle

SpecAssignment == AssignmentInit /\ [][AssignmentNext]_vars

====
